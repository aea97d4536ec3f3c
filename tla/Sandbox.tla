------------------------------ MODULE Sandbox -------------------------------
(***************************************************************************)
(* homework2: command_launcher.cpp sets LD_PRELOAD and BASE_PATH and       *)
(* executes ./choice, which makes the library call its argv[0] names;      *)
(* inject.cpp, preloaded into it, makes the real call only for names that  *)
(* is_sub_directory finds at or below BASE_PATH.  What the three share is  *)
(* the environment.  A name is a sequence of components.                   *)
(***************************************************************************)
EXTENDS Integers, Sequences

CONSTANTS
    Name,       \* components other than ".", ".." and "~"
    Hidden,     \* those that begin with a dot or a tilde
    StartsWith, \* pairs of different names, the second the beginning of the first
    Pwd, Home,  \* the directories PWD and HOME name, sequences of Names
    Bases,      \* what the user may give to -d
    Paths,      \* the names the program may use
    MaxOptions, \* bound: options on the command line
    MaxCalls    \* bound: calls of the program (choice itself makes one)

Special == {".", "..", "~"}
Path == [abs : BOOLEAN, parts : Seq(Name \cup Special)]
Here == [abs |-> FALSE, parts |-> <<".">>]
Empty == [abs |-> FALSE, parts |-> <<>>]
Blank == ""    \* what follows the slash in the text "/"

ASSUME SandboxAssumption ==
    /\ Name \cap (Special \cup {Blank}) = {} /\ Hidden \subseteq Name
    /\ Pwd \in Seq(Name) /\ Home \in Seq(Name)
    /\ Bases \subseteq Path /\ Paths \subseteq Path
    /\ MaxOptions \in Nat /\ MaxCalls \in Nat

VARIABLES
    pc,       \* where launcher or program are
    nopt,     \* options read
    wanted,   \* history: the last argument of -d, or "."
    base,     \* BASE_PATH
    heap,     \* whether new returns memory that was used before
    ncall,    \* calls made
    op, todo, \* the call, and the names it still has to check
    refused,  \* a name of the call was refused
    judged,   \* the name just checked, if any
    granted, denied, \* history: the names that were granted, and refused
    cwd,      \* the working directory
    outcome   \* what the last call returned

envVars  == <<wanted, base, nopt>>
callVars == <<op, todo, refused, judged, granted, denied>>
vars == <<pc, envVars, heap, ncall, callVars, cwd, outcome>>

OneName  == {"chdir", "one"}
TwoNames == {"two"}
Rejected == {"exec", "system"}
Op == OneName \cup TwoNames \cup Rejected

TypeOK ==
    /\ pc \in {"options", "usage", "program", "check", "call", "ended", "crashed"}
    /\ nopt \in 0..MaxOptions /\ wanted \in Path /\ base \in Path
    /\ heap \in {"fresh", "used"}
    /\ ncall \in 0..MaxCalls
    /\ op \in Op \cup {"none"} /\ todo \in Seq(Path) /\ refused \in BOOLEAN
    /\ judged \subseteq Path /\ granted \subseteq Path /\ denied \subseteq Path
    /\ cwd \in Seq(Name \cup {"~"})
    /\ outcome \in {"none", "done", "error", "EACCES"}

-----------------------------------------------------------------------------
(* is_sub_directory.                                                       *)

\* A name that begins with none of / ~ . gets "./".
Components(p) ==
    IF p.abs \/ p.parts[1] \in Special \cup Hidden THEN p.parts
    ELSE <<".">> \o p.parts

\* A text is a sequence too: a slash and a component, again and again.  That of
\* the directory / is a slash and nothing.
Text(d) == IF d = <<>> THEN <<Blank>> ELSE d

\* PWD up to its last slash: the empty text if PWD is just below / or /.
\* (Mutant: PWD itself.)
ParentSame == Pwd

Parent == SubSeq(Pwd, 1, Len(Pwd) - 1)

Meaning(c) == CASE c = "." -> Text(Pwd) [] c = ".." -> Parent
                [] c = "~" -> Text(Home) [] OTHER -> <<c>>

\* The meanings of all components, one after another.
Absolute(parts) ==
    LET upto[i \in 0..Len(parts)] ==
            IF i = 0 THEN <<>> ELSE upto[i - 1] \o Meaning(parts[i])
    IN IF parts = <<>> THEN Text(<<>>) ELSE upto[Len(parts)]

\* strstr of "/b1/b2" in "/a1/a2/a3".
Begins(a, b) == b = Blank \/ a = b \/ <<a, b>> \in StartsWith

\* (Mutant: strcmp.)
ContainsSame(a, b) == a = b

Contains(a, b) ==
    \E i \in 0..(Len(a) - Len(b)) :
        \A j \in 1..Len(b) : IF j < Len(b) THEN a[i + j] = b[j]
                                           ELSE Begins(a[i + j], b[j])

Accepts(b, p) == Contains(Absolute(Components(p)), Absolute(b.parts))

\* strtok writes a NUL behind the first component of BASE_PATH itself.
\* (Mutant: at the slash before it.)
CutAll(b) == [b EXCEPT !.parts = <<>>]

Cut(b) == [b EXCEPT !.parts = IF Len(@) > 1 THEN <<@[1]>> ELSE @]

-----------------------------------------------------------------------------
Init ==
    /\ pc = "options" /\ nopt = 0
    /\ wanted = Here /\ base = Here      \* the constructor of the launcher
    /\ heap = "fresh" /\ ncall = 0
    /\ op = "none" /\ todo = <<>> /\ refused = FALSE
    /\ judged = {} /\ granted = {} /\ denied = {}
    /\ cwd = Pwd /\ outcome = "none"

\* setenv("BASE_PATH", optarg, 1).  (Mutant: 0, which keeps an earlier value.)
SetBaseOnce(b) == IF base = Here THEN b ELSE base

SetBase(b) == b

Option(b) ==
    /\ pc = "options" /\ nopt < MaxOptions /\ nopt' = nopt + 1
    /\ wanted' = b /\ base' = SetBase(b)
    /\ UNCHANGED <<pc, heap, ncall, callVars, cwd, outcome>>

\* An unknown option, or no "--".
Usage ==
    /\ pc = "options" /\ pc' = "usage"
    /\ UNCHANGED <<envVars, heap, ncall, callVars, cwd, outcome>>

\* args[0] is written through before it is set: the launcher may end there.
\* It ends too if ./choice is not found.
Launch ==
    /\ pc = "options" /\ pc' \in {"program", "ended", "crashed"}
    /\ UNCHANGED <<envVars, heap, ncall, callVars, cwd, outcome>>

\* One name, two names, or a call that is always rejected.  system checks no
\* name; a name that is missing ends the program in strlen.  choice makes at
\* most one call, and no exec or system; inject.cpp is written for any program.
Ask(o, names) ==
    /\ pc = "program" /\ ncall < MaxCalls
    /\ pc' = "check" /\ ncall' = ncall + 1
    /\ op' = o /\ todo' = names /\ refused' = FALSE /\ judged' = {}
    /\ heap' \in IF o = "one" THEN {heap, "used"} ELSE {heap}  \* getpwnam
    /\ outcome' = "none"
    /\ UNCHANGED <<envVars, granted, denied, cwd>>

AskAny ==
    \/ \E o \in OneName \cup {"exec"}, p \in Paths : Ask(o, <<p>>)
    \/ \E o \in TwoNames, p, q \in Paths : Ask(o, <<p, q>>)
    \/ Ask("system", <<>>)

NameMissing ==
    /\ pc = "program" /\ ncall < MaxCalls /\ pc' = "crashed"
    /\ UNCHANGED <<envVars, heap, ncall, callVars, cwd, outcome>>

Ends ==
    /\ pc = "program" /\ pc' = "ended"
    /\ UNCHANGED <<envVars, heap, ncall, callVars, cwd, outcome>>

\* The path and base are appended to memory from new: if it was used before
\* the answer is that of other strings.
Verdicts(p) == IF heap = "used" THEN BOOLEAN ELSE {Accepts(base, p)}

Check ==
    /\ pc = "check" /\ todo # <<>> /\ Head(todo) # Empty
    /\ judged' = {Head(todo)}
    /\ \E v \in Verdicts(Head(todo)) :
          /\ refused' = ~v
          /\ todo' = IF v THEN Tail(todo) ELSE <<>>
          /\ granted' = IF v /\ heap = "fresh" THEN granted \cup judged' ELSE granted
          /\ denied' = IF ~v /\ heap = "fresh" THEN denied \cup judged' ELSE denied
    /\ base' = Cut(base)
    /\ UNCHANGED <<pc, nopt, wanted, heap, ncall, op, cwd, outcome>>

\* exit(-3)
CheckEmpty ==
    /\ pc = "check" /\ todo # <<>> /\ Head(todo) = Empty /\ pc' = "ended"
    /\ UNCHANGED <<envVars, heap, ncall, callVars, cwd, outcome>>

\* The errno of a refused call.  (Mutant: another one.)
DeniedPerm == "EPERM"

Denied == "EACCES"

Refuse ==
    /\ pc = "check" /\ todo = <<>> /\ (refused \/ op \in Rejected)
    /\ pc' = "program" /\ outcome' = Denied /\ judged' = {}
    /\ UNCHANGED <<envVars, heap, ncall, op, todo, refused, granted, denied, cwd>>

\* Where a component leads from a directory.  The kernel knows no "~".
Step(dir, c) == CASE c = "." -> dir [] c = ".." -> SubSeq(dir, 1, Len(dir) - 1)
                  [] OTHER -> Append(dir, c)

\* What a name leads to.
Resolve(dir, p) ==
    LET upto[i \in 0..Len(p.parts)] ==
            IF i = 0 THEN IF p.abs THEN <<>> ELSE dir
            ELSE Step(upto[i - 1], p.parts[i])
    IN upto[Len(p.parts)]

\* The real call; chdir moves the process but not PWD.
Call ==
    /\ pc = "check" /\ todo = <<>> /\ ~refused /\ op \notin Rejected
    /\ pc' = "program" /\ judged' = {}
    /\ \/ outcome' = "error" /\ UNCHANGED cwd
       \/ /\ outcome' = "done"
          /\ cwd' \in IF op = "chdir" THEN {Resolve(cwd, p) : p \in judged}
                                      ELSE {cwd}
    /\ UNCHANGED <<envVars, heap, ncall, op, todo, refused, granted, denied>>

\* LOAD_LIB: dlsym found nothing.
NotFound ==
    /\ pc = "check" /\ todo = <<>> /\ ~refused /\ op \notin Rejected
    /\ pc' = "ended"
    /\ UNCHANGED <<envVars, heap, ncall, callVars, cwd, outcome>>

Launcher == (\E b \in Bases : Option(b)) \/ Usage \/ Launch
Program  == AskAny \/ NameMissing \/ Ends
Library  == Check \/ CheckEmpty \/ Refuse \/ Call \/ NotFound
Over     == pc \in {"usage", "ended", "crashed"} /\ UNCHANGED vars

Next == Launcher \/ Program \/ Library \/ Over

Spec == Init /\ [][Next]_vars

-----------------------------------------------------------------------------
(* Properties.                                                             *)

Below(d, e) == Len(e) <= Len(d) /\ SubSeq(d, 1, Len(e)) = e

\* A name with at most one of . and .., at its beginning, and not a hidden one.
Plain(p) ==
    /\ p.parts = <<>> \/ p.abs \/ p.parts[1] \notin Hidden \cup {"~"}
    /\ \A i \in 2..Len(p.parts) : p.parts[i] \notin Special

\* A base without "/." at its beginning, which is_sub_directory takes for PWD.
PlainBase(b) == Plain(b) /\ (b.abs /\ b.parts # <<>> => b.parts[1] \notin Special)

\* Names just refused, on a fresh heap, although they lead to what -d named or
\* below it.
Wronged ==
    {p \in judged : /\ refused /\ heap = "fresh" /\ PlainBase(wanted)
                    /\ Below(Resolve(cwd, p), Resolve(Pwd, wanted))}

\* The sandboxed program works as usual below the base directory: a plain name
\* at or below what -d named is not refused, by the first check or a later one
\* of the same call, although PWD is text, strtok cuts BASE_PATH between the
\* two and is_sub_directory compares strings.  Until the program moves; and but
\* for two directories: PWD / itself, and .. where that is / (README, line 9:
\* "Sandboxed executable work as usual").
GrantedWorks ==
    cwd = Pwd /\ cwd # <<>> =>
        \A p \in Wronged : Plain(p) => p.parts = <<"..">> /\ Len(cwd) = 1

\* A check never refuses a name that an earlier check granted, whatever other
\* names were checked in between: what strtok leaves of BASE_PATH is the
\* beginning of what it was.  (On a heap that is not fresh a check may answer
\* for other strings, and this says nothing.)
NeverWithdrawn == refused /\ heap = "fresh" => judged \cap granted = {}

\* And the other way round: a check never grants a name that an earlier check
\* refused (README, line 9: "any directory access not granted will be blocked"),
\* unless -d named a base of several components: all but the first are cut off.
RefusalStands ==
    ~refused /\ heap = "fresh" /\ ~(Len(wanted.parts) > 1)
        => judged \cap denied = {}
=============================================================================
