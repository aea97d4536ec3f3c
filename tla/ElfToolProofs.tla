---------------------------- MODULE ElfToolProofs ---------------------------
(***************************************************************************)
(* Proofs about the ELF reader, for every set of files, every content of   *)
(* the header nobody initialises, and every sequence of loads and failures.*)
(***************************************************************************)
EXTENDS ElfTool, TLAPS

-----------------------------------------------------------------------------
(* Type correctness.                                                       *)

\* A section number, and -1, is a legal second part of an object's name.
LEMMA ObjectType ==
    ASSUME nload \in 0..MaxLoads, NEW r \in Role, NEW s \in Index \cup {None}
    PROVE  Obj(r, s) \in Object
<1>1. nload \in Nat /\ s \in Nat \cup {None}  BY ElfAssumption DEF Index
<1>2. QED BY <1>1 DEF Obj, Object

LEMMA StrtabType ==
    ASSUME nload \in 0..MaxLoads, NEW list \in SUBSET Index
    PROVE  StrtabOf(list) \subseteq Object
<1>1. {"tab", "data"} \subseteq Role  BY DEF Role
<1>2. QED BY <1>1, ObjectType DEF StrtabOf

LEMMA InitType == Init => TypeOK
<1> SUFFICES ASSUME Init PROVE TypeOK  OBVIOUS
<1>1. file \in File  BY ElfAssumption DEF Init
<1>2. sec \in [Index -> Section]  BY <1>1 DEF Init, File
<1>3. 0 \in 0..MaxLoads /\ 0 \in 0..MaxSections  BY ElfAssumption
<1>4. QED BY <1>2, <1>3 DEF Init, TypeOK

\* The number of a section of the file is an index.
LEMMA SectionIndex ==
    ASSUME TypeOK
    PROVE  /\ file \in File /\ file.shnum \in Nat /\ file.shnum <= MaxSections
           /\ 0..(file.shnum - 1) \subseteq Index
<1>1. file \in File  BY ElfAssumption DEF TypeOK
<1>2. file.shnum \in 0..MaxSections  BY <1>1 DEF File
<1>3. QED BY <1>1, <1>2, ElfAssumption DEF Index

LEMMA NextType == TypeOK /\ [Next]_vars => TypeOK'
<1> SUFFICES ASSUME TypeOK, [Next]_vars PROVE TypeOK'  OBVIOUS
<1> USE DEF TypeOK
<1>a. 0 \in Index /\ 0 \in 0..MaxSections  BY ElfAssumption DEF Index
<1>b. ASSUME NEW f \in Files, BeginLoad(f)
      PROVE  /\ nload' \in 0..MaxLoads /\ file' \in Files
             /\ \A r \in Role : <<r, 0, nload'>> \in Object
  <2>1. nload' \in 0..MaxLoads /\ nload' \in Nat  BY <1>b, ElfAssumption DEF BeginLoad
  <2>2. QED BY <1>b, <2>1 DEF BeginLoad, Object
<1>c. {"fd", "elf", "handle"} \subseteq Role  BY DEF Role
<1>1. ASSUME NEW f \in Files, ElfOpen(f) PROVE TypeOK'
  BY <1>1, <1>b, <1>c DEF ElfOpen, handle
<1>2. ASSUME NEW f \in Files, ElfOpenFails(f) PROVE TypeOK'
  <2>1. heap' \subseteq Object  BY <1>2, <1>b, <1>c DEF ElfOpenFails
  <2>2. QED BY <1>2, <1>b, <2>1 DEF ElfOpenFails, BeginLoad, sdb, handle
<1>3. CASE LoadPhdr
  <2>1. Obj("phdr", 0) \in Object  BY <1>a, ObjectType DEF Role
  <2>2. QED BY <1>3, <2>1 DEF LoadPhdr, At, sdb
<1>4. CASE LoadShdr
  <2>1. Obj("shdr", 0) \in Object  BY <1>a, ObjectType DEF Role
  <2>2. sec' \in [Index -> Section]
    <3>1. file.sec \in [Index -> Section]  BY SectionIndex DEF File
    <3>2. QED BY <1>4, <3>1, ElfAssumption DEF LoadShdr
  <2>3. QED BY <1>4, <1>a, <2>1, <2>2 DEF LoadShdr, At, sdb
<1>5. CASE HeadersFail  BY <1>5 DEF HeadersFail, At, sdb, handle
<1>6. CASE StrtabSection
  <2>1. i \in Index /\ i + 1 \in 0..MaxSections
    BY <1>6, SectionIndex, ElfAssumption DEF StrtabSection, Index
  <2>2. StrtabOf({i}) \subseteq Object  BY <2>1, StrtabType
  <2>3. heap' \subseteq Object /\ chain' \subseteq Index
    BY <1>6, <2>1, <2>2 DEF StrtabSection
  <2>4. QED BY <1>6, <2>1, <2>3 DEF StrtabSection, At, sdb, handle
<1>7. CASE StrtabFails
  <2>1. i \in Index
    BY <1>7, SectionIndex, ElfAssumption DEF StrtabFails, Index
  <2>2. Obj("tab", i) \in Object /\ Obj("data", i) \in Object
    BY <2>1, ObjectType DEF Role
  <2>3. heap' \subseteq Object  BY <1>7, <2>2 DEF StrtabFails, Unlinked
  <2>4. QED BY <1>7, <2>3 DEF StrtabFails, At, sdb, handle
<1>8. CASE StrtabDone  BY <1>8 DEF StrtabDone, At, sdb
<1>9. CASE LoadAllFails  BY <1>9 DEF LoadAllFails, At, Free, Cleared, sdb
<1>10. ASSUME NEW k \in Kinds, AtSymtab(k)
       PROVE  TypeOK' <=> /\ heap' \subseteq Object
                          /\ table' \in [Kinds -> Index \cup {None}]
                          /\ tabstr' \in [Kinds -> Index \cup {None, Wild}]
  BY <1>10 DEF AtSymtab, At, sdb
<1>11. ASSUME NEW k \in Kinds, NEW s \in FirstOf(k)
       PROVE  /\ s \in Index
              /\ Obj("sym", s) \in Object /\ Obj("symbols", s) \in Object
              /\ LinkedStrtab(s) \subseteq Index \cup {None, Wild}
  <2>1. s \in Index  BY SectionIndex DEF FirstOf
  <2>2. QED BY <2>1, ObjectType DEF Role, LinkedStrtab
<1>12. ASSUME NEW k \in Kinds, LoadSymtab(k) PROVE TypeOK'
  <2>1. PICK s \in FirstOf(k) : \E t \in LinkedStrtab(s) \ {None} :
            /\ heap' = heap \cup {Obj("sym", s), Obj("symbols", s)}
            /\ table' = [table EXCEPT ![k] = s]
            /\ tabstr' = [tabstr EXCEPT ![k] = t]
    BY <1>12 DEF LoadSymtab
  <2>2. /\ heap' \subseteq Object
        /\ table' \in [Kinds -> Index \cup {None}]
        /\ tabstr' \in [Kinds -> Index \cup {None, Wild}]
    BY <1>11, <2>1
  <2>3. QED BY <1>12, <1>10, <2>2 DEF LoadSymtab
<1>13. ASSUME NEW k \in Kinds, SymtabUnread(k) PROVE TypeOK'
  <2>1. /\ heap' \subseteq Object
        /\ table' \in [Kinds -> Index \cup {None}]
    BY <1>11, <1>13 DEF SymtabUnread, FailedSymtab
  <2>2. QED BY <1>13, <1>10, <2>1 DEF SymtabUnread
<1>14. ASSUME NEW k \in Kinds, SymtabMissing(k) PROVE TypeOK'
  BY <1>14, <1>10 DEF SymtabMissing
<1>15. CASE Found
  <2>1. text_idx' \in Index  BY <1>15, SectionIndex DEF Found, Text
  <2>2. QED BY <1>15, <2>1 DEF Found, handle
<1>16. CASE NotFound  BY <1>16 DEF NotFound, At, sdb, handle
<1>17. CASE GiveUp  BY <1>17 DEF GiveUp, ElfClose, Free, Cleared
<1>18. CASE Quit  BY <1>18 DEF Quit, ElfClose, Free, Cleared
<1>19. CASE Ended \/ UNCHANGED vars  BY <1>19 DEF Ended, vars, sdb, handle
<1>20. QED
  BY <1>1, <1>2, <1>3, <1>4, <1>5, <1>6, <1>7, <1>8, <1>9, <1>12, <1>13,
     <1>14, <1>15, <1>16, <1>17, <1>18, <1>19 DEF Next, Load, LoadAll, LoadTables

\* Every variable of the reader and of load_prog stays in its type.
THEOREM ElfTypeCorrect == Spec => []TypeOK
<1>1. QED BY InitType, NextType, PTL DEF Spec

-----------------------------------------------------------------------------
(* Ownership.                                                              *)

Loading == {"phdr", "shdr", "strtab", "SYMTAB", "DYNSYM", "find", "failed", "close"}

\* What each phase of load_prog may hold.
Phases ==
    /\ pc \in Loading => eh /\ tab = None
    /\ pc = "prompt" /\ current = "BEGIN" => ~eh /\ tab = None
    /\ ~eh => /\ ~phdr /\ ~shdr /\ strtab = {}
              /\ \A k \in Kinds : table[k] = None /\ tabstr[k] = None
    /\ pc # "strtab" => chain = {}
    /\ pc \in {"phdr", "shdr", "strtab"} =>
          strtab = {} /\ \A k \in Kinds : tabstr[k] = None

\* PointersLive is inductive with the phases and with FreedOnce.
OwnerInv == Phases /\ PointersLive /\ FreedOnce

LEMMA InitOwner == Init => OwnerInv
BY DEF Init, OwnerInv, Phases, Loading, PointersLive, FreedOnce

\* Freeing what a handle holds of its tables leaves the handle itself.
LEMMA FreeTables ==
    ASSUME OwnerInv, eh, Free(Tables), Cleared, UNCHANGED <<nload, sec, chain>>, chain = {}
    PROVE  /\ ~badfree' /\ Opened' \subseteq heap'
           /\ Tables' = {} /\ SymbolsOf' = {} /\ StrtabOf(chain)' = {}
<1>1. Tables \subseteq heap /\ Opened \subseteq heap /\ ~badfree
  BY DEF OwnerInv, PointersLive, FreedOnce
<1>2. Opened' = Opened  BY DEF Opened, Obj
<1>3. Opened \cap Tables = {}
  BY DEF Opened, Tables, SymtabOf, StrtabOf, Obj
<1>4. ~badfree' /\ Opened' \subseteq heap'  BY <1>1, <1>2, <1>3 DEF Free
<1>5. /\ SymtabOf' = {} /\ SymbolsOf' = {} /\ StrtabOf(chain)' = {}
      /\ StrtabOf(strtab)' = {}
  BY DEF Cleared, SymtabOf, SymbolsOf, StrtabOf, Kinds
<1>6. Tables' = {}  BY <1>5 DEF Tables, Cleared
<1>7. QED BY <1>4, <1>5, <1>6

\* elf_close frees what is there and leaves no pointer.
LEMMA CloseFrees ==
    ASSUME OwnerInv, ElfClose
    PROVE  /\ ~badfree' /\ ~eh' /\ ~phdr' /\ ~shdr' /\ strtab' = {}
           /\ \A k \in Kinds : table'[k] = None /\ tabstr'[k] = None
<1>1. (IF eh THEN Tables \cup Opened ELSE {}) \subseteq heap /\ ~badfree
  BY DEF OwnerInv, PointersLive, FreedOnce
<1>2. QED BY <1>1 DEF ElfClose, Free, Cleared

LEMMA NextOwner == TypeOK /\ OwnerInv /\ [Next]_vars => OwnerInv'
<1> SUFFICES ASSUME TypeOK, OwnerInv, [Next]_vars PROVE OwnerInv'  OBVIOUS
<1>a. Phases /\ PointersLive /\ ~badfree  BY DEF OwnerInv, FreedOnce
<1>1. ASSUME NEW f \in Files, ElfOpen(f) PROVE OwnerInv'
  <2>1. Phases'  BY <1>1, <1>a DEF Phases, Loading, ElfOpen, BeginLoad, handle
  <2>2. Opened' \subseteq heap'  BY <1>1 DEF ElfOpen, Opened, Obj
  <2>3. /\ ~phdr /\ ~shdr /\ strtab = {} /\ chain = {} /\ tab = None
        /\ \A k \in Kinds : table[k] = None /\ tabstr[k] = None
    BY <1>1, <1>a DEF Phases, ElfOpen, BeginLoad
  <2>4. UNCHANGED <<handle, chain, tab, badfree>>  BY <1>1 DEF ElfOpen
  <2>5. SymtabOf' = {} /\ SymbolsOf' = {} /\ StrtabOf(strtab)' = {} /\ StrtabOf(chain)' = {}
    BY <2>3, <2>4 DEF SymtabOf, SymbolsOf, StrtabOf, handle
  <2>6. Tables' = {}  BY <2>3, <2>4, <2>5 DEF Tables, handle
  <2>7. PointersLive'  BY <2>2, <2>3, <2>4, <2>5, <2>6 DEF PointersLive, handle
  <2>8. QED BY <1>a, <2>1, <2>4, <2>7 DEF OwnerInv, FreedOnce
<1>2. ASSUME NEW f \in Files, ElfOpenFails(f) PROVE OwnerInv'
  <2>1. Phases'
    BY <1>2, <1>a DEF Phases, Loading, ElfOpenFails, BeginLoad, handle, sdb
  <2>2. ~eh /\ UNCHANGED <<eh, tab, strtab, tabstr, badfree>>
    BY <1>2, <1>a DEF Phases, ElfOpenFails, BeginLoad, handle, sdb
  <2>3. PointersLive'  BY <1>a, <1>2, <2>2 DEF PointersLive, ElfOpenFails, BeginLoad
  <2>4. QED BY <1>a, <2>1, <2>2, <2>3 DEF OwnerInv, FreedOnce
<1>b. ASSUME UNCHANGED <<nload, table, strtab, tabstr, chain, tab, eh, badfree>>,
             heap \subseteq heap', pc # "done",
             shdr' => shdr \/ Obj("shdr", 0) \in heap',
             phdr' => phdr \/ Obj("phdr", 0) \in heap'
      PROVE  PointersLive' /\ FreedOnce'
  <2>1. /\ SymtabOf' = SymtabOf /\ SymbolsOf' = SymbolsOf /\ Opened' = Opened
        /\ StrtabOf(strtab)' = StrtabOf(strtab)
        /\ StrtabOf(chain)' = StrtabOf(chain)
    BY <1>b DEF SymtabOf, SymbolsOf, StrtabOf, Opened, Obj
  <2>2. Obj("shdr", 0)' = Obj("shdr", 0) /\ Obj("phdr", 0)' = Obj("phdr", 0)
    BY <1>b DEF Obj
  <2>3. Tables' \subseteq Tables \cup heap'
    BY <1>b, <2>1, <2>2 DEF Tables
  <2>4. QED BY <1>a, <1>b, <2>1, <2>3 DEF PointersLive, FreedOnce
<1>3. CASE LoadPhdr
  <2>1. Phases'  BY <1>3, <1>a DEF Phases, Loading, LoadPhdr, At, sdb
  <2>2. PointersLive' /\ FreedOnce'  BY <1>3, <1>b DEF LoadPhdr, At, sdb
  <2>3. QED BY <2>1, <2>2 DEF OwnerInv
<1>4. CASE LoadShdr
  <2>1. Phases' /\ chain = {}  BY <1>4, <1>a DEF Phases, Loading, LoadShdr, At, sdb
  <2>2. PointersLive' /\ FreedOnce'  BY <1>4, <2>1, <1>b DEF LoadShdr, At, sdb
  <2>3. QED BY <2>1, <2>2 DEF OwnerInv
<1>5. CASE HeadersFail
  <2>1. Phases'  BY <1>5, <1>a DEF Phases, Loading, HeadersFail, At, sdb, handle
  <2>2. PointersLive' /\ FreedOnce'  BY <1>5, <1>b DEF HeadersFail, At, sdb, handle
  <2>3. QED BY <2>1, <2>2 DEF OwnerInv
<1>6. CASE StrtabSection
  <2>1. Phases'  BY <1>6, <1>a DEF Phases, Loading, StrtabSection, At, sdb, handle
  <2>2. /\ UNCHANGED <<nload, phdr, shdr, table, strtab, tabstr, tab, eh, badfree>>
        /\ pc = "strtab"
    BY <1>6 DEF StrtabSection, At, sdb, handle
  <2>3. /\ Tables' = Tables /\ SymbolsOf' = SymbolsOf /\ Opened' = Opened
    BY <2>2 DEF Tables, SymtabOf, SymbolsOf, StrtabOf, Opened, Obj
  <2>4. eh => StrtabOf(chain)' \subseteq heap' /\ heap \subseteq heap'
    <3>1. eh => StrtabOf(chain) \subseteq heap  BY <1>a DEF PointersLive
    <3>2. CASE sec[i].type = "STRTAB"
      <4>1. chain' = chain \cup {i} /\ heap' = heap \cup StrtabOf({i})
        BY <1>6, <3>2 DEF StrtabSection
      <4>2. StrtabOf(chain)' = StrtabOf(chain) \cup StrtabOf({i})
        BY <2>2, <4>1 DEF StrtabOf, Obj
      <4>3. QED BY <3>1, <4>1, <4>2
    <3>3. CASE sec[i].type # "STRTAB"
      <4>1. chain' = chain /\ heap' = heap  BY <1>6, <3>3 DEF StrtabSection
      <4>2. StrtabOf(chain)' = StrtabOf(chain)  BY <2>2, <4>1 DEF StrtabOf, Obj
      <4>3. QED BY <3>1, <4>1, <4>2
    <3>4. QED BY <3>2, <3>3
  <2>5. PointersLive'  BY <1>a, <2>2, <2>3, <2>4 DEF PointersLive
  <2>6. QED BY <1>a, <2>1, <2>2, <2>5 DEF OwnerInv, FreedOnce
<1>7. CASE StrtabFails
  <2>1. Phases'  BY <1>7, <1>a DEF Phases, Loading, StrtabFails, At, sdb, handle
  <2>2. /\ UNCHANGED <<nload, phdr, shdr, table, strtab, tabstr, tab, eh>>
        /\ chain' = {} /\ strtab = {} /\ eh /\ pc = "strtab"
    BY <1>7, <1>a DEF StrtabFails, At, sdb, handle, Phases, Loading
  <2>3. /\ Tables' = Tables /\ SymbolsOf' = SymbolsOf /\ Opened' = Opened
    BY <2>2 DEF Tables, SymtabOf, SymbolsOf, StrtabOf, Opened, Obj
  <2>4. Opened \cup Tables \cup SymbolsOf \cup StrtabOf(chain) \subseteq heap
    BY <1>a, <2>2 DEF PointersLive
  <2>5. (Opened \cup Tables \cup SymbolsOf) \cap StrtabOf(chain) = {}
    <3>1. StrtabOf(strtab) = {}  BY <2>2 DEF StrtabOf
    <3>2. QED BY <3>1 DEF Opened, Tables, SymtabOf, SymbolsOf, StrtabOf, Obj
  <2>6. heap \ StrtabOf(chain) \subseteq heap'  BY <1>7 DEF StrtabFails
  <2>7. StrtabOf(chain)' = {}  BY <2>2 DEF StrtabOf
  <2>8. PointersLive'
    BY <1>a, <2>2, <2>3, <2>4, <2>5, <2>6, <2>7 DEF PointersLive
  <2>9. ~badfree'  BY <1>a, <1>7, <2>4 DEF StrtabFails
  <2>10. QED BY <2>1, <2>8, <2>9 DEF OwnerInv, FreedOnce
<1>8. CASE StrtabDone
  <2>1. Phases'  BY <1>8, <1>a DEF Phases, Loading, StrtabDone, At, sdb
  <2>2. /\ UNCHANGED <<heap, badfree, nload, phdr, shdr, table, tabstr, tab, eh>>
        /\ strtab' = chain /\ chain' = {} /\ eh /\ strtab = {} /\ tab = None
        /\ \A k \in Kinds : tabstr[k] = None
    BY <1>8, <1>a DEF StrtabDone, At, sdb, Phases, Loading
  <2>3. /\ SymtabOf' = SymtabOf /\ SymbolsOf' = SymbolsOf /\ Opened' = Opened
        /\ StrtabOf(strtab)' = StrtabOf(chain) /\ StrtabOf(chain)' = {}
        /\ Obj("shdr", 0)' = Obj("shdr", 0) /\ Obj("phdr", 0)' = Obj("phdr", 0)
    BY <2>2 DEF SymtabOf, SymbolsOf, StrtabOf, Opened, Obj
  <2>4. Tables' \subseteq Tables \cup StrtabOf(chain)  BY <2>2, <2>3 DEF Tables
  <2>5. PointersLive'  BY <1>a, <2>2, <2>3, <2>4 DEF PointersLive
  <2>6. QED BY <1>a, <2>1, <2>2, <2>5 DEF OwnerInv, FreedOnce
<1>9. CASE LoadAllFails
  <2>1. Phases'  BY <1>9, <1>a DEF Phases, Loading, LoadAllFails, At, Cleared, sdb
  <2>2. /\ eh /\ chain = {} /\ tab = None /\ Free(Tables) /\ Cleared
        /\ UNCHANGED <<nload, sec, chain, tab, eh>>
    BY <1>9, <1>a DEF LoadAllFails, At, sdb, Phases, Loading
  <2>3. /\ ~badfree' /\ Opened' \subseteq heap'
        /\ Tables' = {} /\ SymbolsOf' = {} /\ StrtabOf(chain)' = {}
    BY <2>2, FreeTables
  <2>4. PointersLive'  BY <2>2, <2>3 DEF PointersLive, Cleared
  <2>5. QED BY <2>1, <2>3, <2>4 DEF OwnerInv, FreedOnce
<1>c. ASSUME NEW k \in Kinds, AtSymtab(k)
      PROVE  /\ Phases' /\ eh /\ tab = None /\ chain = {} /\ pc # "done"
             /\ UNCHANGED <<nload, phdr, shdr, strtab, chain, tab, eh, badfree>>
             /\ Opened' = Opened /\ StrtabOf(strtab)' = StrtabOf(strtab)
             /\ StrtabOf(chain)' = StrtabOf(chain)
             /\ Obj("shdr", 0)' = Obj("shdr", 0) /\ Obj("phdr", 0)' = Obj("phdr", 0)
  <2>1. /\ eh /\ tab = None /\ chain = {} /\ pc # "done" /\ pc \in Kinds
        /\ pc' \in {"DYNSYM", "find"}
        /\ UNCHANGED <<nload, phdr, shdr, strtab, chain, tab, eh, badfree, current>>
    BY <1>c, <1>a DEF AtSymtab, At, sdb, Phases, Loading, Kinds
  <2>2. Phases'  BY <2>1, <1>a DEF Phases, Loading
  <2>3. QED BY <2>1, <2>2 DEF Opened, StrtabOf, Obj
<1>10. ASSUME NEW k \in Kinds, LoadSymtab(k) PROVE OwnerInv'
  <2>1. PICK s \in FirstOf(k) : \E t \in LinkedStrtab(s) \ {None} :
            /\ heap' = heap \cup {Obj("sym", s), Obj("symbols", s)}
            /\ table' = [table EXCEPT ![k] = s]
            /\ tabstr' = [tabstr EXCEPT ![k] = t]
    BY <1>10 DEF LoadSymtab
  <2>2. AtSymtab(k)  BY <1>10 DEF LoadSymtab
  <2>3. \A l \in Kinds : table'[l] = table[l] \/ table'[l] = s
    BY <2>1
  <2>4. SymtabOf' \subseteq SymtabOf \cup {Obj("sym", s)}
    BY <2>2, <2>3, <1>c DEF SymtabOf, Obj
  <2>5. SymbolsOf' \subseteq SymbolsOf \cup {Obj("symbols", s)}
    BY <2>2, <2>3, <1>c DEF SymbolsOf, Obj
  <2>6. Tables' \subseteq Tables \cup {Obj("sym", s)}
    BY <2>2, <2>4, <1>c DEF Tables
  <2>7. \A l \in Kinds : tabstr'[l] \in strtab \cup {None, Wild}
    BY <2>1, <1>a DEF PointersLive, LinkedStrtab
  <2>8. PointersLive'  BY <1>a, <1>c, <2>1, <2>2, <2>5, <2>6, <2>7 DEF PointersLive
  <2>9. QED BY <1>a, <1>c, <2>2, <2>8 DEF OwnerInv, FreedOnce
<1>11. ASSUME NEW k \in Kinds, SymtabUnread(k) PROVE OwnerInv'
  <2>1. /\ AtSymtab(k) /\ heap \subseteq heap' /\ UNCHANGED tabstr
        /\ table' = [table EXCEPT ![k] = None]
    BY <1>11 DEF SymtabUnread, FailedSymtab
  <2>2. \A l \in Kinds : table'[l] # None => table'[l] = table[l]
    BY <2>1
  <2>3. SymtabOf' \subseteq SymtabOf /\ SymbolsOf' \subseteq SymbolsOf
    BY <2>1, <2>2, <1>c DEF SymtabOf, SymbolsOf, Obj
  <2>4. Tables' \subseteq Tables  BY <2>1, <2>3, <1>c DEF Tables
  <2>5. PointersLive'  BY <1>a, <1>c, <2>1, <2>3, <2>4 DEF PointersLive
  <2>6. QED BY <1>a, <1>c, <2>1, <2>5 DEF OwnerInv, FreedOnce
<1>12. ASSUME NEW k \in Kinds, SymtabMissing(k) PROVE OwnerInv'
  <2>1. AtSymtab(k) /\ UNCHANGED <<heap, table, tabstr>>
    BY <1>12 DEF SymtabMissing
  <2>2. Phases' /\ pc # "done"
        /\ UNCHANGED <<nload, phdr, shdr, strtab, chain, tab, eh, badfree>>
    BY <2>1, <1>c
  <2>3. PointersLive' /\ FreedOnce'  BY <2>1, <2>2, <1>b
  <2>4. QED BY <2>2, <2>3 DEF OwnerInv
<1>13. CASE Found
  <2>1. /\ Phases' /\ tab' \in strtab /\ pc # "done"
        /\ UNCHANGED <<heap, badfree, nload, eh, handle, chain>>
    BY <1>13, <1>a DEF Phases, Loading, Found, handle
  <2>2. /\ Tables' = Tables /\ SymbolsOf' = SymbolsOf /\ Opened' = Opened
        /\ StrtabOf(chain)' = StrtabOf(chain)
    BY <2>1 DEF Tables, SymtabOf, SymbolsOf, StrtabOf, Opened, Obj, handle
  <2>3. PointersLive'  BY <1>a, <2>1, <2>2 DEF PointersLive, handle
  <2>4. QED BY <1>a, <2>1, <2>3 DEF OwnerInv, FreedOnce
<1>14. CASE NotFound
  <2>1. Phases' /\ pc # "done" /\ UNCHANGED <<heap, badfree, nload, sdb, handle, chain>>
    BY <1>14, <1>a DEF Phases, Loading, NotFound, At, sdb, handle
  <2>2. PointersLive' /\ FreedOnce'  BY <2>1, <1>b DEF sdb, handle
  <2>3. QED BY <2>1, <2>2 DEF OwnerInv
<1>d. ASSUME ElfClose, UNCHANGED chain, pc' \in {"prompt", "done"}, pc # "strtab",
             pc' = "prompt" => tab' = None
      PROVE  OwnerInv'
  <2>1. /\ ~badfree' /\ ~eh' /\ ~phdr' /\ ~shdr' /\ strtab' = {}
        /\ \A k \in Kinds : table'[k] = None /\ tabstr'[k] = None
    BY <1>d, CloseFrees
  <2>2. Phases'  BY <1>a, <1>d, <2>1 DEF Phases, Loading
  <2>3. PointersLive'  BY <1>d, <2>1 DEF PointersLive
  <2>4. QED BY <2>1, <2>2, <2>3 DEF OwnerInv, FreedOnce
<1>15. CASE GiveUp  BY <1>15, <1>d DEF GiveUp
<1>16. CASE Quit  BY <1>16, <1>d DEF Quit
<1>17. CASE Ended \/ UNCHANGED vars
  <2>1. UNCHANGED <<nload, pc, current, eh, tab, phdr, shdr, strtab, table, tabstr,
                    chain, heap, badfree>>
    BY <1>17 DEF Ended, vars, sdb, handle
  <2>2. /\ Tables' = Tables /\ SymbolsOf' = SymbolsOf /\ Opened' = Opened
        /\ StrtabOf(chain)' = StrtabOf(chain)
    BY <2>1 DEF Tables, SymtabOf, SymbolsOf, StrtabOf, Opened, Obj
  <2>3. QED BY <1>a, <2>1, <2>2 DEF OwnerInv, Phases, PointersLive, FreedOnce
<1>18. QED
  BY <1>1, <1>2, <1>3, <1>4, <1>5, <1>6, <1>7, <1>8, <1>9, <1>10, <1>11, <1>12,
     <1>13, <1>14, <1>15, <1>16, <1>17 DEF Next, Load, LoadAll, LoadTables

\* Through every failure of every load, no pointer of the handle leads to
\* memory that was freed.
THEOREM PointersStayLive == Spec => []PointersLive
<1>1. OwnerInv => PointersLive  BY DEF OwnerInv
<1>2. QED BY <1>1, InitType, NextType, InitOwner, NextOwner, PTL DEF Spec

\* No path of errors frees anything twice.
THEOREM NothingFreedTwice == Spec => []FreedOnce
<1>1. OwnerInv => FreedOnce  BY DEF OwnerInv
<1>2. QED BY <1>1, InitType, NextType, InitOwner, NextOwner, PTL DEF Spec

-----------------------------------------------------------------------------
(* What a load leaves.                                                     *)

\* What each phase has: headers, string tables of that type, no symbol table
\* before the string tables are complete.
LoadInv ==
    /\ pc \in Loading => current = "BEGIN"
    /\ current = "BEGIN" => text_idx = None
    /\ pc \in {"shdr", "strtab", "SYMTAB", "DYNSYM", "find"} => phdr
    /\ pc \in {"strtab", "SYMTAB", "DYNSYM", "find"} => shdr
    /\ \A s \in chain \cup strtab : sec[s].type = "STRTAB"
    /\ pc \in {"phdr", "shdr", "strtab"} => \A k \in Kinds : table[k] = None
    /\ LoadedOrClean

LEMMA InitLoad == Init => LoadInv
BY DEF Init, LoadInv, Loading, LoadedOrClean

LEMMA NextLoad == TypeOK /\ Phases /\ LoadInv /\ [Next]_vars => LoadInv'
<1> SUFFICES ASSUME TypeOK, Phases, LoadInv, [Next]_vars PROVE LoadInv'  OBVIOUS
<1> USE DEF LoadInv, LoadedOrClean, Phases, Loading
<1>1. ASSUME NEW f \in Files, ElfOpen(f) \/ ElfOpenFails(f) PROVE LoadInv'
  BY <1>1 DEF ElfOpen, ElfOpenFails, BeginLoad, handle, sdb
<1>2. CASE LoadPhdr \/ HeadersFail
  BY <1>2 DEF LoadPhdr, HeadersFail, At, handle, sdb
<1>3. CASE LoadShdr
  BY <1>3 DEF LoadShdr, At, sdb
<1>4. CASE StrtabSection \/ StrtabFails \/ StrtabDone
  BY <1>4 DEF StrtabSection, StrtabFails, StrtabDone, At, handle, sdb
<1>5. CASE LoadAllFails
  BY <1>5 DEF LoadAllFails, Cleared, At, sdb
<1>6. ASSUME NEW k \in Kinds, AtSymtab(k)
      PROVE  /\ UNCHANGED <<phdr, shdr, sec, strtab, chain, current, text_idx>>
             /\ pc \in {"SYMTAB", "DYNSYM"} /\ pc' \in {"DYNSYM", "find"}
  BY <1>6 DEF AtSymtab, At, sdb, Kinds
<1>7. ASSUME NEW k \in Kinds, LoadSymtab(k) PROVE LoadInv'
  <2>1. AtSymtab(k)  BY <1>7 DEF LoadSymtab
  <2>2. QED BY <2>1, <1>6
<1>8. ASSUME NEW k \in Kinds, SymtabUnread(k) PROVE LoadInv'
  <2>1. /\ AtSymtab(k) /\ UNCHANGED tabstr
        /\ table' = [table EXCEPT ![k] = None]
    BY <1>8 DEF SymtabUnread, FailedSymtab
  <2>2. QED BY <2>1, <1>6
<1>9. ASSUME NEW k \in Kinds, SymtabMissing(k) PROVE LoadInv'
  <2>1. AtSymtab(k) /\ UNCHANGED <<table, tabstr>>
    BY <1>9 DEF SymtabMissing
  <2>2. QED BY <2>1, <1>6
<1>10. CASE Found
  <2>1. PICK s \in Text : text_idx' = s
    BY <1>10 DEF Found
  <2>2. s # None /\ sec[s].text
    BY <2>1, SectionIndex DEF Text, None
  <2>3. QED BY <1>10, <2>1, <2>2 DEF Found, handle
<1>11. CASE NotFound
  BY <1>11 DEF NotFound, At, handle, sdb
<1>12. CASE GiveUp \/ Quit
  BY <1>12 DEF GiveUp, Quit, ElfClose, Cleared
<1>13. CASE Ended \/ UNCHANGED vars
  BY <1>13 DEF Ended, vars, sdb, handle
<1>14. QED
  BY <1>1, <1>2, <1>3, <1>4, <1>5, <1>7, <1>8, <1>9, <1>10, <1>11, <1>12, <1>13
  DEF Next, Load, LoadAll, LoadTables

\* At the prompt a file is loaded with everything the debugger asks of it, or
\* nothing of it is left, whichever read or allocation failed.
THEOREM LoadsAllOrNothing == Spec => []LoadedOrClean
<1>1. OwnerInv => Phases  BY DEF OwnerInv
<1>2. LoadInv => LoadedOrClean  BY DEF LoadInv
<1>3. QED
  BY <1>1, <1>2, InitType, NextType, InitOwner, NextOwner, InitLoad, NextLoad,
     PTL DEF Spec

-----------------------------------------------------------------------------
(* What is lost.                                                           *)

Lost == heap \ Reachable

\* A load that has not failed has lost nothing but symbols.
Going == {"phdr", "shdr", "strtab", "SYMTAB", "DYNSYM", "find"}

\* Objects are numbered by load, a symbol table is loaded into a field that is
\* empty, and the one string table a load may lose is lost when it fails.
LossInv ==
    /\ \A o \in heap : o[3] <= nload
    /\ pc \in Going => \A o \in Lost : o[3] = nload => o[1] = "symbols"
    /\ pc \in Kinds => table["DYNSYM"] = None
    /\ pc \in Going \ {"DYNSYM", "find"} => table["SYMTAB"] = None
    /\ LostOnly

LEMMA InitLoss == Init => LossInv
BY DEF Init, LossInv, Lost, Reachable, LostOnly, Going, Kinds

\* A step within a load that loses nothing new but symbols.
LEMMA LossAfter ==
    ASSUME TypeOK, LossInv, UNCHANGED nload,
           \A o \in heap' : o \in heap \/ o[3] = nload,
           \A o \in Lost' : o \in Lost \/ o[1] = "symbols",
           pc' \in Going => pc \in Going,
           pc' \in Kinds => table'["DYNSYM"] = None,
           pc' \in Going \ {"DYNSYM", "find"} => table'["SYMTAB"] = None
    PROVE  LossInv'
<1>1. \A o \in heap' : o[3] <= nload'
  BY DEF LossInv, TypeOK
<1>2. \A o \in Lost' : o[1] \in {"symbols", "tab", "data"}
  BY DEF LossInv, LostOnly, Lost
<1>3. \A o, p \in Lost' : o[1] = p[1] /\ o[3] = p[3] /\ o[1] # "symbols" => o = p
  BY DEF LossInv, LostOnly, Lost
<1>4. pc' \in Going => \A o \in Lost' : o[3] = nload' => o[1] = "symbols"
  BY DEF LossInv
<1>5. LostOnly'
  BY <1>2, <1>3 DEF LostOnly, Lost
<1>6. QED BY <1>1, <1>4, <1>5 DEF LossInv

\* What is reachable depends on the number of the load and the handle only.
LEMMA SameReach ==
    ASSUME UNCHANGED <<nload, eh, phdr, shdr, strtab, table, chain>>
    PROVE  Reachable' = Reachable
BY DEF Reachable, Opened, Tables, SymtabOf, StrtabOf, Obj

LEMMA NextLoss == TypeOK /\ OwnerInv /\ LoadInv /\ LossInv /\ [Next]_vars => LossInv'
<1> SUFFICES ASSUME TypeOK, OwnerInv, LoadInv, LossInv, [Next]_vars PROVE LossInv'
  OBVIOUS
<1>a. Phases  BY DEF OwnerInv
<1>b. pc \in {"phdr", "shdr", "strtab"} => \A k \in Kinds : table[k] = None
  BY DEF LoadInv
<1>c. nload \in Nat  BY ElfAssumption DEF TypeOK
<1>1. ASSUME NEW f \in Files, ElfOpen(f) \/ ElfOpenFails(f) PROVE LossInv'
  <2>1. ~eh /\ nload' = nload + 1 /\ UNCHANGED table /\ \A k \in Kinds : table[k] = None
    BY <1>1, <1>a DEF ElfOpen, ElfOpenFails, BeginLoad, Phases, handle, sdb
  <2>2. Lost = heap
    BY <2>1 DEF Lost, Reachable
  <2>3. Lost' \subseteq heap /\ \A o \in heap' : o \in heap \/ o[3] = nload'
    <3>1. CASE ElfOpen(f)
      <4>1. heap' = heap \cup Opened' /\ eh'
        BY <3>1 DEF ElfOpen, Opened, Obj
      <4>2. Opened' \subseteq Reachable'
        BY <4>1 DEF Reachable
      <4>3. \A o \in Opened' : o[3] = nload'
        BY DEF Opened, Obj
      <4>4. QED BY <4>1, <4>2, <4>3 DEF Lost
    <3>2. CASE ElfOpenFails(f)
      BY <3>2 DEF ElfOpenFails, ErrQuit, Lost
    <3>3. QED BY <1>1, <3>1, <3>2
  <2>4. \A o \in heap : o[3] \in Nat /\ o[3] <= nload
    BY DEF LossInv, TypeOK, Object
  <2>5. \A o \in heap' : o[3] <= nload'
    BY <1>c, <2>1, <2>3, <2>4
  <2>6. \A o \in Lost' : o[3] # nload'
    BY <1>c, <2>1, <2>3, <2>4
  <2>7. LostOnly'
    BY <2>2, <2>3 DEF LossInv, LostOnly, Lost
  <2>8. QED BY <2>1, <2>5, <2>6, <2>7 DEF LossInv, Kinds
<1>2. CASE LoadPhdr \/ LoadShdr
  <2>1. /\ UNCHANGED <<nload, eh, strtab, table>> /\ chain = {} /\ chain' = {} /\ eh
        /\ (phdr => phdr') /\ (shdr => shdr') /\ pc \in {"phdr", "shdr"}
        /\ pc' \in {"shdr", "strtab"}
    BY <1>2, <1>a DEF LoadPhdr, LoadShdr, At, sdb, Phases, Loading, TypeOK
  <2>2. PICK r \in {"phdr", "shdr"} : heap' = heap \cup {Obj(r, 0)} /\ Obj(r, 0) \in Reachable'
    <3>1. /\ LoadPhdr => heap' = heap \cup {Obj("phdr", 0)} /\ phdr'
          /\ LoadShdr => heap' = heap \cup {Obj("shdr", 0)} /\ shdr'
      BY DEF LoadPhdr, LoadShdr
    <3>2. \A r : Obj(r, 0)' = Obj(r, 0)
      BY <2>1 DEF Obj
    <3>3. QED BY <1>2, <2>1, <3>1, <3>2 DEF Reachable, Tables
  <2>3. Reachable \subseteq Reachable'
    <3>1. /\ Opened' = Opened /\ SymtabOf' = SymtabOf
          /\ StrtabOf(strtab)' = StrtabOf(strtab) /\ StrtabOf(chain)' = StrtabOf(chain)
          /\ Obj("shdr", 0)' = Obj("shdr", 0) /\ Obj("phdr", 0)' = Obj("phdr", 0)
      BY <2>1 DEF Opened, SymtabOf, StrtabOf, Obj
    <3>2. Tables \subseteq Tables'
      <4>1. ASSUME NEW o \in Tables
            PROVE  \/ o \in SymtabOf \cup StrtabOf(strtab)
                   \/ shdr /\ o = Obj("shdr", 0)
                   \/ phdr /\ o = Obj("phdr", 0)
        BY <4>1 DEF Tables
      <4>2. /\ SymtabOf' \cup StrtabOf(strtab)' \subseteq Tables'
            /\ shdr' => Obj("shdr", 0)' \in Tables'
            /\ phdr' => Obj("phdr", 0)' \in Tables'
        BY DEF Tables
      <4>3. QED BY <2>1, <3>1, <4>1, <4>2
    <3>3. QED BY <2>1, <3>1, <3>2 DEF Reachable
  <2>4. Obj(r, 0)[3] = nload
    BY DEF Obj
  <2>5. (\A o \in heap' : o \in heap \/ o[3] = nload) /\ Lost' \subseteq Lost
    BY <2>2, <2>3, <2>4 DEF Lost
  <2>6. pc \in Going /\ pc' \notin Kinds /\ table'["SYMTAB"] = None
    BY <1>b, <2>1 DEF Going, Kinds
  <2>7. QED BY <2>1, <2>5, <2>6, LossAfter
<1>3. CASE HeadersFail \/ Found \/ NotFound
  <2>1. /\ UNCHANGED <<nload, eh, phdr, shdr, strtab, table, chain, heap>>
        /\ pc' \in {"failed", "prompt", "close"}
    BY <1>3 DEF HeadersFail, Found, NotFound, At, sdb, handle
  <2>2. Lost' = Lost
    BY <2>1, SameReach DEF Lost
  <2>3. QED BY <2>1, <2>2, LossAfter DEF Going, Kinds
<1>4. CASE StrtabSection
  <2>1. /\ UNCHANGED <<nload, eh, phdr, shdr, strtab, table>> /\ eh
        /\ pc = "strtab" /\ pc' = "strtab"
    BY <1>4, <1>a DEF StrtabSection, At, sdb, handle, Phases, Loading
  <2>2. PICK new \in SUBSET {i} : chain' = chain \cup new /\ heap' = heap \cup StrtabOf(new)
    <3>1. StrtabOf({}) = {}
      BY DEF StrtabOf
    <3>2. QED BY <1>4, <3>1 DEF StrtabSection
  <2>3. StrtabOf(chain)' = StrtabOf(chain) \cup StrtabOf(new)
    BY <2>1, <2>2 DEF StrtabOf, Obj
  <2>4. Reachable' = Reachable \cup StrtabOf(new)
    <3>1. Opened' = Opened /\ Tables' = Tables
      BY <2>1 DEF Opened, Tables, SymtabOf, StrtabOf, Obj
    <3>2. QED BY <2>1, <2>3, <3>1 DEF Reachable
  <2>5. \A o \in StrtabOf(new) : o[3] = nload
    BY DEF StrtabOf, Obj
  <2>6. (\A o \in heap' : o \in heap \/ o[3] = nload) /\ Lost' \subseteq Lost
    BY <2>2, <2>4, <2>5 DEF Lost
  <2>7. QED BY <1>b, <2>1, <2>6, LossAfter DEF Going, Kinds
<1>5. CASE StrtabFails
  <2>1. /\ UNCHANGED <<nload, eh, phdr, shdr, strtab, table>> /\ eh
        /\ pc = "strtab" /\ pc' = "failed" /\ strtab = {} /\ chain' = {}
    BY <1>5, <1>a DEF StrtabFails, At, sdb, handle, Phases, Loading
  <2>2. PICK lost \in Unlinked : heap' = (heap \ StrtabOf(chain)) \cup lost
    BY <1>5 DEF StrtabFails
  <2>3. lost \subseteq {Obj("tab", i), Obj("data", i)}
    BY DEF Unlinked
  <2>4. Reachable \subseteq Reachable' \cup StrtabOf(chain)
    BY <2>1 DEF Reachable, Opened, Tables, SymtabOf, StrtabOf, Obj
  <2>5. \A o \in Lost' : o \in Lost \/ o \in {Obj("tab", i), Obj("data", i)}
    BY <2>2, <2>3, <2>4 DEF Lost
  <2>6. /\ Obj("tab", i)[1] = "tab" /\ Obj("data", i)[1] = "data"
        /\ Obj("tab", i)[3] = nload /\ Obj("data", i)[3] = nload
    BY DEF Obj
  <2>7. \A o \in Lost : o[1] \in {"symbols", "tab", "data"}
                        /\ (o[3] = nload => o[1] = "symbols")
    BY <2>1 DEF LossInv, LostOnly, Lost, Going
  <2>8. \A o \in Lost' : o[1] \in {"symbols", "tab", "data"}
    BY <2>5, <2>6, <2>7
  <2>9. \A o, p \in Lost : o[1] = p[1] /\ o[3] = p[3] /\ o[1] # "symbols" => o = p
    BY DEF LossInv, LostOnly, Lost
  <2>10. ASSUME NEW o \in Lost', NEW p \in Lost',
                o[1] = p[1], o[3] = p[3], o[1] # "symbols"
         PROVE  o = p
    <3>1. CASE o \in Lost /\ p \in Lost
      BY <2>9, <2>10, <3>1
    <3>2. CASE o \notin Lost \/ p \notin Lost
      <4>1. o[3] = nload
        BY <2>5, <2>6, <2>10, <3>2
      <4>2. o \in {Obj("tab", i), Obj("data", i)} /\ p \in {Obj("tab", i), Obj("data", i)}
        BY <2>5, <2>7, <2>10, <4>1
      <4>3. QED BY <2>6, <2>10, <4>2
    <3>3. QED BY <3>1, <3>2
  <2>11. LostOnly'
    BY <2>8, <2>10 DEF LostOnly, Lost
  <2>12. \A o \in heap' : o[3] <= nload'
    BY <1>c, <2>1, <2>2, <2>3, <2>6 DEF LossInv
  <2>13. QED BY <2>1, <2>11, <2>12 DEF LossInv, Going, Kinds
<1>6. CASE StrtabDone
  <2>1. /\ UNCHANGED <<nload, eh, phdr, shdr, table, heap>> /\ eh
        /\ pc = "strtab" /\ pc' \in {"failed", "SYMTAB"}
        /\ strtab = {} /\ strtab' = chain /\ chain' = {}
    BY <1>6, <1>a DEF StrtabDone, At, sdb, Phases, Loading
  <2>2. Reachable \subseteq Reachable'
    BY <2>1 DEF Reachable, Opened, Tables, SymtabOf, StrtabOf, Obj
  <2>3. Lost' \subseteq Lost
    BY <2>1, <2>2 DEF Lost
  <2>4. QED BY <1>b, <2>1, <2>3, LossAfter DEF Going, Kinds
<1>7. CASE LoadAllFails
  <2>1. UNCHANGED <<nload, eh, chain>> /\ eh /\ chain = {} /\ pc' = "close"
        /\ heap' = heap \ Tables
    BY <1>7, <1>a DEF LoadAllFails, Free, At, sdb, Phases, Loading
  <2>2. Opened' = Opened /\ StrtabOf(chain) = {}
    BY <2>1 DEF Opened, StrtabOf, Obj
  <2>3. Opened' \subseteq Reachable' /\ Reachable = Opened \cup Tables
    BY <2>1, <2>2 DEF Reachable
  <2>4. Lost' \subseteq Lost
    BY <2>1, <2>2, <2>3 DEF Lost
  <2>5. QED BY <2>1, <2>4, LossAfter DEF Going, Kinds
<1>8. ASSUME NEW k \in Kinds, AtSymtab(k)
      PROVE  /\ UNCHANGED <<nload, eh, phdr, shdr, strtab, chain>> /\ eh
             /\ pc = k /\ pc' = IF k = "SYMTAB" THEN "DYNSYM" ELSE "find"
             /\ table[k] = None
  <2>1. pc = k
    BY <1>8 DEF AtSymtab, At
  <2>2. k = "SYMTAB" \/ k = "DYNSYM"
    BY DEF Kinds
  <2>3. table[k] = None
    BY <2>1, <2>2 DEF LossInv, Going, Kinds
  <2>4. QED BY <1>8, <1>a, <2>1, <2>2, <2>3 DEF AtSymtab, At, sdb, Phases, Loading
<1>9. ASSUME NEW k \in Kinds, AtSymtab(k), NEW new,
             \A o \in new : o[3] = nload,
             \A o \in new : o[1] = "symbols" \/ o \in Reachable',
             heap' = heap \cup new, Reachable \subseteq Reachable',
             \A l \in Kinds \ {k} : table'[l] = table[l]
      PROVE  LossInv'
  <2>1. (\A o \in heap' : o \in heap \/ o[3] = nload)
        /\ \A o \in Lost' : o \in Lost \/ o[1] = "symbols"
    BY <1>9 DEF Lost
  <2>2. k = "SYMTAB" => table'["DYNSYM"] = None
    BY <1>8, <1>9 DEF LossInv, Kinds
  <2>3. pc \in Going /\ pc' \notin Going \ {"DYNSYM", "find"}
        /\ (pc' \in Kinds => k = "SYMTAB")
    BY <1>8, <1>9 DEF Going, Kinds
  <2>4. QED BY <1>8, <1>9, <2>1, <2>2, <2>3, LossAfter
<1>10. ASSUME NEW k \in Kinds, LoadSymtab(k) PROVE LossInv'
  <2>1. AtSymtab(k)  BY <1>10 DEF LoadSymtab
  <2>2. PICK s \in FirstOf(k) : /\ heap' = heap \cup {Obj("sym", s), Obj("symbols", s)}
                                /\ table' = [table EXCEPT ![k] = s]
    BY <1>10 DEF LoadSymtab
  <2>3. /\ table'[k] = s /\ \A l \in Kinds \ {k} : table'[l] = table[l]
        /\ s # None
    BY <2>2, SectionIndex DEF TypeOK, FirstOf, None
  <2>4. Obj("sym", s) \in Reachable' /\ Reachable \subseteq Reachable'
    <3>1. Obj("sym", s) \in SymtabOf' /\ SymtabOf \subseteq SymtabOf'
      BY <1>8, <2>1, <2>3 DEF SymtabOf, Obj
    <3>2. Opened' = Opened /\ StrtabOf(chain)' = StrtabOf(chain)
          /\ StrtabOf(strtab)' = StrtabOf(strtab)
          /\ Obj("shdr", 0)' = Obj("shdr", 0) /\ Obj("phdr", 0)' = Obj("phdr", 0)
      BY <1>8, <2>1 DEF Opened, StrtabOf, Obj
    <3>3. QED BY <1>8, <2>1, <3>1, <3>2 DEF Reachable, Tables
  <2>5. Obj("sym", s)[3] = nload /\ Obj("symbols", s)[3] = nload
        /\ Obj("symbols", s)[1] = "symbols"
    BY DEF Obj
  <2> DEFINE new == {Obj("sym", s), Obj("symbols", s)}
  <2>6. \A o \in new : o[3] = nload
    BY <2>5
  <2>7. \A o \in new : o[1] = "symbols" \/ o \in Reachable'
    BY <2>4, <2>5
  <2>8. heap' = heap \cup new
    BY <2>2
  <2> HIDE DEF new
  <2>9. QED BY <1>9, <2>1, <2>3, <2>4, <2>6, <2>7, <2>8
<1>11. ASSUME NEW k \in Kinds, SymtabUnread(k) PROVE LossInv'
  <2>1. AtSymtab(k)  BY <1>11 DEF SymtabUnread
  <2>2. PICK s \in FirstOf(k) : /\ heap' = heap \cup {Obj("symbols", s)}
                                /\ table' = [table EXCEPT ![k] = None]
    BY <1>11 DEF SymtabUnread, FailedSymtab
  <2>3. table' = table
    BY <1>8, <2>1, <2>2 DEF TypeOK
  <2>4. Reachable' = Reachable
    BY <1>8, <2>1, <2>3, SameReach
  <2>5. Obj("symbols", s)[3] = nload /\ Obj("symbols", s)[1] = "symbols"
    BY DEF Obj
  <2> DEFINE new == {Obj("symbols", s)}
  <2>6. \A o \in new : o[3] = nload
    BY <2>5
  <2>7. \A o \in new : o[1] = "symbols" \/ o \in Reachable'
    BY <2>5
  <2>8. heap' = heap \cup new
    BY <2>2
  <2>9. Reachable \subseteq Reachable' /\ \A l \in Kinds \ {k} : table'[l] = table[l]
    BY <2>3, <2>4
  <2> HIDE DEF new
  <2>10. QED BY <1>9, <2>1, <2>6, <2>7, <2>8, <2>9
<1>12. ASSUME NEW k \in Kinds, SymtabMissing(k) PROVE LossInv'
  <2>1. AtSymtab(k) /\ UNCHANGED <<heap, table>>  BY <1>12 DEF SymtabMissing
  <2>2. Reachable' = Reachable
    BY <1>8, <2>1, SameReach
  <2> DEFINE new == {}
  <2>3. /\ \A o \in new : o[3] = nload
        /\ \A o \in new : o[1] = "symbols" \/ o \in Reachable'
        /\ heap' = heap \cup new
    BY <2>1
  <2>4. Reachable \subseteq Reachable' /\ \A l \in Kinds \ {k} : table'[l] = table[l]
    BY <2>1, <2>2
  <2> HIDE DEF new
  <2>5. QED BY <1>9, <2>1, <2>3, <2>4
<1>13. CASE GiveUp \/ Quit
  <2>1. ElfClose /\ chain = {} /\ UNCHANGED nload /\ pc' \in {"prompt", "done"}
    BY <1>13, <1>a DEF GiveUp, Quit, Phases
  <2>2. heap' = heap \ (IF eh THEN Tables \cup Opened ELSE {})
    BY <2>1 DEF ElfClose, Free
  <2>3. Reachable = IF eh THEN Tables \cup Opened ELSE {}
    BY <2>1 DEF Reachable, StrtabOf
  <2>4. Lost' \subseteq Lost /\ heap' \subseteq heap
    BY <2>2, <2>3 DEF Lost
  <2>5. QED BY <2>1, <2>4, LossAfter DEF Going, Kinds
<1>14. CASE Ended \/ UNCHANGED vars
  <2>1. UNCHANGED <<nload, eh, phdr, shdr, strtab, table, chain, heap, pc>>
    BY <1>14 DEF Ended, vars, sdb, handle
  <2>2. Lost' = Lost
    BY <2>1, SameReach DEF Lost
  <2>3. QED BY <2>1, <2>2, LossAfter DEF LossInv
<1>15. QED
  BY <1>1, <1>2, <1>3, <1>4, <1>5, <1>6, <1>7, <1>10, <1>11, <1>12, <1>13, <1>14
  DEF Next, Load, LoadAll, LoadTables

\* Whatever fails, over any number of loads, nothing is lost but symbols and one
\* string table of each load: no descriptor and none of the headers.
THEOREM LittleIsLost == Spec => []LostOnly
<1>1. OwnerInv => Phases  BY DEF OwnerInv
<1>2. LossInv => LostOnly  BY DEF LossInv
<1>3. QED
  BY <1>1, <1>2, InitType, NextType, InitOwner, NextOwner, InitLoad, NextLoad,
     InitLoss, NextLoss, PTL DEF Spec
=============================================================================
