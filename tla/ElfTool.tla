------------------------------- MODULE ElfTool ------------------------------
(***************************************************************************)
(* The ELF reader of homework4/0756706_samuel/elftool.c as load_prog of    *)
(* sdb.cpp uses it: a handle and its tables are built up by reads and      *)
(* allocations each of which may fail, torn down by the path of the        *)
(* failure, and by elf_close.  What is modelled is who owns what.          *)
(*                                                                         *)
(* An object, a descriptor or a block of memory, is named by its role, the *)
(* section it belongs to and the load it was made in.  Pointers are        *)
(* modelled by whether they are set and for which section.                 *)
(***************************************************************************)
EXTENDS Integers, FiniteSets

CONSTANTS
    MaxSections,  \* bound: sections of a file
    Files,        \* the files the user may load
    Junk,         \* what the header of section 0 may hold
    Breakdowns,   \* what may fail: a subset of {"open", "memory", "read"}
    MaxLoads      \* bound: calls of load

Index == 0..(MaxSections - 1)
None  == -1   \* a null pointer
Wild  == -2   \* a pointer nobody has set

Kinds == {"SYMTAB", "DYNSYM"}
Section == [type : {"STRTAB", "other"} \cup Kinds, link : Nat, text : BOOLEAN]
File == [supported : BOOLEAN, phnum : Nat, shnum : 0..MaxSections,
         shstrndx : Nat, sec : [Index -> Section]]

ASSUME ElfAssumption ==
    /\ MaxSections \in Nat \ {0} /\ MaxLoads \in Nat
    /\ Files \subseteq File /\ Junk \subseteq Section
    /\ Breakdowns \subseteq {"open", "memory", "read"}

VARIABLES
    heap,     \* the objects that exist
    badfree,  \* something was freed that did not exist
    nload,    \* the number of the load
    pc,       \* prompt, done, or what load_prog is at
    file,     \* the file being loaded
    current, eh, tab, text_idx,          \* members of SDB
    phdr, shdr, sec, strtab, table,      \* fields of the handle
    tabstr,   \* the string table of each symbol table
    chain, i  \* locals of elf_load_strtab: the list so far, the next section

handle == <<phdr, shdr, sec, strtab, table, tabstr>>
sdb    == <<current, eh, tab, text_idx>>
vars   == <<heap, badfree, nload, pc, file, sdb, handle, chain, i>>

Role   == {"fd", "elf", "handle", "phdr", "shdr", "tab", "data", "sym", "symbols"}
Object == Role \X (Nat \cup {None}) \X Nat

Obj(role, s) == <<role, s, nload>>

TypeOK ==
    /\ heap \subseteq Object /\ badfree \in BOOLEAN
    /\ nload \in 0..MaxLoads
    /\ pc \in {"prompt", "phdr", "shdr", "strtab", "SYMTAB", "DYNSYM", "find",
               "failed", "close", "done"}
    /\ file \in Files
    /\ current \in {"BEGIN", "LOADED"} /\ eh \in BOOLEAN
    /\ tab \in Index \cup {None} /\ text_idx \in Index \cup {None}
    /\ phdr \in BOOLEAN /\ shdr \in BOOLEAN /\ sec \in [Index -> Section]
    /\ strtab \subseteq Index
    /\ table \in [Kinds -> Index \cup {None}]
    /\ tabstr \in [Kinds -> Index \cup {None, Wild}]
    /\ chain \subseteq Index /\ i \in 0..MaxSections

Init ==
    /\ heap = {} /\ badfree = FALSE /\ nload = 0 /\ pc = "prompt"
    /\ file \in Files
    /\ current = "BEGIN" /\ eh = FALSE /\ tab = None /\ text_idx = None
    /\ phdr = FALSE /\ shdr = FALSE /\ sec = file.sec
    /\ strtab = {} /\ table = [k \in Kinds |-> None]
    /\ tabstr = [k \in Kinds |-> None]
    /\ chain = {} /\ i = 0

-----------------------------------------------------------------------------
(* Ownership.                                                              *)

Opened == {Obj(r, 0) : r \in {"fd", "elf", "handle"}}

\* Everything a list of string tables holds.
StrtabOf(list) == {Obj(r, s) : r \in {"tab", "data"}, s \in list}

SymtabOf == {Obj("sym", table[k]) : k \in {k \in Kinds : table[k] # None}}

SymbolsOf == {Obj("symbols", table[k]) : k \in {k \in Kinds : table[k] # None}}

Tables ==
    SymtabOf \cup StrtabOf(strtab)
    \cup (IF shdr THEN {Obj("shdr", 0)} ELSE {})
    \cup (IF phdr THEN {Obj("phdr", 0)} ELSE {})

Free(objects) ==
    /\ heap' = heap \ objects
    /\ badfree' = (badfree \/ ~(objects \subseteq heap))

\* The pointers a function has freed are cleared.  (Mutant: not all of them.)
ClearedAllButShdr ==
    /\ phdr' = FALSE /\ strtab' = {} /\ UNCHANGED shdr
    /\ table' = [k \in Kinds |-> None]
    /\ tabstr' = [k \in Kinds |-> None]

Cleared ==
    /\ phdr' = FALSE /\ shdr' = FALSE /\ strtab' = {}
    /\ table' = [k \in Kinds |-> None]
    /\ tabstr' = [k \in Kinds |-> None]

-----------------------------------------------------------------------------
(* elf_open.                                                               *)

\* The label err_quit: of what was acquired.  (Mutant: the descriptor stays.)
ErrQuitButFd(acquired) == acquired \ {"fd"}

ErrQuit(acquired) == acquired

BeginLoad(f) ==
    /\ pc = "prompt" /\ current = "BEGIN" /\ nload < MaxLoads
    /\ nload' = nload + 1 /\ file' = f

ElfOpen(f) ==
    /\ BeginLoad(f) /\ f.supported
    /\ heap' = heap \cup {<<r, 0, nload'>> : r \in {"fd", "elf", "handle"}}
    /\ eh' = TRUE /\ pc' = "phdr"
    /\ UNCHANGED <<badfree, current, tab, text_idx, handle, chain, i>>

\* open, elf_begin or elf_getident, or malloc fails, or the class is unknown;
\* acquired is what there is by then.
ElfOpenFails(f) ==
    /\ BeginLoad(f) /\ ("open" \in Breakdowns \/ ~f.supported)
    /\ \E acquired \in {{}, {"fd"}, {"fd", "elf"}, {"fd", "elf", "handle"}} :
          /\ "handle" \in acquired => ~f.supported
          /\ heap' = heap \cup {<<r, 0, nload'>> : r \in acquired \ ErrQuit(acquired)}
    /\ UNCHANGED <<badfree, pc, sdb, handle, chain, i>>

-----------------------------------------------------------------------------
(* elf_load_all: a step that fails goes to err_quit.                       *)

At(phase) == pc = phase /\ UNCHANGED <<nload, file, sdb>>

LoadPhdr ==
    /\ At("phdr") /\ file.phnum > 0
    /\ heap' = heap \cup {Obj("phdr", 0)} /\ phdr' = TRUE /\ pc' = "shdr"
    /\ UNCHANGED <<badfree, shdr, sec, strtab, table, tabstr, chain, i>>

\* elf_nextscn begins with section 1: what section 0 holds is what malloc
\* returned.
LoadShdr ==
    /\ At("shdr") /\ file.shnum > 0
    /\ heap' = heap \cup {Obj("shdr", 0)} /\ shdr' = TRUE
    /\ \E junk \in Junk : sec' = [file.sec EXCEPT ![0] = junk]
    /\ pc' = "strtab" /\ chain' = {} /\ i' = 0
    /\ UNCHANGED <<badfree, phdr, strtab, table, tabstr>>

HeadersFail ==
    /\ pc \in {"phdr", "shdr"} /\ At(pc)
    /\ \/ "memory" \in Breakdowns
       \/ pc = "phdr" /\ file.phnum = 0
       \/ pc = "shdr" /\ file.shnum = 0
    /\ pc' = "failed"
    /\ UNCHANGED <<heap, badfree, handle, chain, i>>

\* elf_load_strtab, one section.
StrtabSection ==
    /\ At("strtab") /\ i < file.shnum
    /\ i' = i + 1
    /\ IF sec[i].type = "STRTAB"
       THEN /\ chain' = chain \cup {i} /\ heap' = heap \cup StrtabOf({i})
       ELSE UNCHANGED <<chain, heap>>
    /\ UNCHANGED <<badfree, pc, handle>>

\* What is lost when a section cannot be loaded: curr is not in the list yet.
Unlinked == {{Obj("tab", i)} : b \in Breakdowns \cap {"memory"}}
            \cup {{Obj("tab", i), Obj("data", i)} : b \in Breakdowns \cap {"read"}}
            \cup {{} : b \in Breakdowns \cap {"memory"}}

StrtabFails ==
    /\ At("strtab") /\ i < file.shnum /\ sec[i].type = "STRTAB"
    /\ \E lost \in Unlinked : heap' = (heap \ StrtabOf(chain)) \cup lost
    /\ badfree' = (badfree \/ ~(StrtabOf(chain) \subseteq heap))
    /\ chain' = {} /\ pc' = "failed"
    /\ UNCHANGED <<handle, i>>

StrtabDone ==
    /\ At("strtab") /\ i = file.shnum
    /\ strtab' = chain /\ chain' = {}
    /\ pc' = IF chain = {} THEN "failed" ELSE "SYMTAB"
    /\ UNCHANGED <<heap, badfree, phdr, shdr, sec, table, tabstr, i>>

\* err_quit of elf_load_all.
LoadAllFails ==
    /\ At("failed")
    /\ Free(Tables) /\ Cleared
    /\ pc' = "close"
    /\ UNCHANGED <<sec, chain, i>>

-----------------------------------------------------------------------------
(* elf_load_symtab and elf_load_dsymtab, whose failures nobody looks at.   *)

\* The first section of a type.
FirstOf(kind) == {s \in 0..(file.shnum - 1) :
                     /\ sec[s].type = kind
                     /\ \A r \in 0..(s - 1) : sec[r].type # kind}

\* symtab->strtab after the search; malloc does not clear it.
LinkedStrtab(s) == IF sec[s].link \in strtab THEN {sec[s].link} ELSE {None, Wild}

AtSymtab(kind) ==
    /\ At(kind)
    /\ pc' = IF kind = "SYMTAB" THEN "DYNSYM" ELSE "find"
    /\ UNCHANGED <<badfree, phdr, shdr, sec, strtab, chain, i>>

LoadSymtab(kind) ==
    /\ AtSymtab(kind)
    /\ \E s \in FirstOf(kind) : \E t \in LinkedStrtab(s) \ {None} :
          /\ heap' = heap \cup {Obj("sym", s), Obj("symbols", s)}
          /\ table' = [table EXCEPT ![kind] = s]
          /\ tabstr' = [tabstr EXCEPT ![kind] = t]

\* What the field of the handle is set to.  (Mutant: to what was freed.)
FailedAt(kind, s) == s

FailedSymtab(kind, s) == None

\* symtab is freed, the symbols are not.
SymtabUnread(kind) ==
    /\ AtSymtab(kind) /\ "read" \in Breakdowns
    /\ \E s \in FirstOf(kind) : \E t \in LinkedStrtab(s) \ {None} :
          /\ heap' = heap \cup {Obj("symbols", s)}
          /\ table' = [table EXCEPT ![kind] = FailedSymtab(kind, s)]
    /\ UNCHANGED tabstr

SymtabMissing(kind) ==
    /\ AtSymtab(kind)
    /\ \/ FirstOf(kind) = {} \/ "memory" \in Breakdowns
       \/ \E s \in FirstOf(kind) : None \in LinkedStrtab(s)
    /\ UNCHANGED <<heap, table, tabstr>>

-----------------------------------------------------------------------------
(* load_prog and the destructor of SDB.                                    *)

\* The first section named .text.  (Mutant: the counter has moved on.)
TextAfter == {s + 1 : s \in {s \in 0..(file.shnum - 1) : sec[s].text}}

Text == {s \in 0..(file.shnum - 1) :
            sec[s].text /\ \A r \in 0..(s - 1) : ~sec[r].text}

Found ==
    /\ pc = "find" /\ file.shstrndx \in strtab
    /\ \E s \in Text : text_idx' = s
    /\ tab' = file.shstrndx /\ current' = "LOADED" /\ pc' = "prompt"
    /\ UNCHANGED <<heap, badfree, nload, file, eh, handle, chain, i>>

NotFound ==
    /\ At("find") /\ (file.shstrndx \notin strtab \/ Text = {})
    /\ pc' = "close"
    /\ UNCHANGED <<heap, badfree, handle, chain, i>>

\* elf_close of a handle.
ElfClose == Free(IF eh THEN Tables \cup Opened ELSE {}) /\ Cleared /\ eh' = FALSE

\* (Mutant: load_prog goes on with the handle it closed.)
GiveUpLoaded ==
    /\ pc = "close" /\ ElfClose
    /\ tab' = None /\ current' = "LOADED" /\ pc' = "prompt"
    /\ UNCHANGED <<nload, file, text_idx, sec, chain, i>>

GiveUp ==
    /\ pc = "close" /\ ElfClose
    /\ tab' = None /\ pc' = "prompt"
    /\ UNCHANGED <<nload, file, current, text_idx, sec, chain, i>>

Quit ==
    /\ pc = "prompt" /\ ElfClose /\ pc' = "done"
    /\ UNCHANGED <<nload, file, current, tab, text_idx, sec, chain, i>>

Load == \E f \in Files : ElfOpen(f) \/ ElfOpenFails(f)

LoadAll == LoadPhdr \/ LoadShdr \/ HeadersFail \/ StrtabSection \/ StrtabFails
           \/ StrtabDone \/ LoadAllFails

LoadTables == \E k \in Kinds : LoadSymtab(k) \/ SymtabUnread(k) \/ SymtabMissing(k)

Ended == pc = "done" /\ UNCHANGED vars

Next == Load \/ LoadAll \/ LoadTables \/ Found \/ NotFound \/ GiveUp \/ Quit \/ Ended

Spec == Init /\ [][Next]_vars

-----------------------------------------------------------------------------
(* Properties.                                                             *)

\* Whatever fails where, every pointer the handle or the list in the making
\* holds leads to memory that was not freed.
PointersLive ==
    /\ eh => Opened \cup Tables \cup SymbolsOf \cup StrtabOf(chain) \subseteq heap
    /\ \A k \in Kinds : tabstr[k] \in strtab \cup {None, Wild}
    /\ pc # "done" => tab \in strtab \cup {None}

\* Nothing is freed twice, though elf_load_all, elf_load_strtab and elf_close
\* all free what was loaded before a failure.
FreedOnce == ~badfree

\* All that is ever lost, over any number of failed loads, are the symbols of
\* symbol tables (elf_close frees their header only) and, of each load, the
\* one string table whose reading failed: no descriptor, no handle and none
\* of the headers is.
Reachable == IF eh THEN Opened \cup Tables \cup StrtabOf(chain) ELSE {}

LostOnly ==
    /\ \A o \in heap \ Reachable : o[1] \in {"symbols", "tab", "data"}
    /\ \A o, p \in heap \ Reachable :
          o[1] = p[1] /\ o[3] = p[3] /\ o[1] # "symbols" => o = p

\* load either completes, with the section names and .text found in tables
\* that are there, or leaves the debugger as it was, ready for another load.
LoadedOrClean ==
    pc = "prompt" =>
        \/ /\ current = "LOADED" /\ eh /\ phdr /\ shdr
           /\ tab \in strtab /\ sec[tab].type = "STRTAB"
           /\ text_idx # None /\ sec[text_idx].text
        \/ /\ current = "BEGIN" /\ ~eh /\ ~phdr /\ ~shdr /\ strtab = {}
           /\ tab = None /\ text_idx = None
           /\ \A k \in Kinds : table[k] = None
=============================================================================
