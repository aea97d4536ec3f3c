------------------------------ MODULE MCElfTool -----------------------------
(***************************************************************************)
(* Small files for TLC: a complete one, one whose symbol tables link       *)
(* nowhere, one without .text, one without section names, and two that are *)
(* refused early.                                                          *)
(***************************************************************************)
EXTENDS ElfTool, Sequences, TLC

Sec(type, link)  == [type |-> type, link |-> link, text |-> FALSE]
TextSec          == [type |-> "other", link |-> 0, text |-> TRUE]
Empty            == Sec("other", 0)
Layout(list)     == [s \in Index |-> IF s + 1 \in DOMAIN list THEN list[s + 1] ELSE Empty]
Of(list, names)  == [supported |-> TRUE, phnum |-> 1, shnum |-> Len(list),
                     shstrndx |-> names, sec |-> Layout(list)]
Complete  == Of(<<Empty, Sec("STRTAB", 0), Sec("SYMTAB", 1), Sec("STRTAB", 0),
                  Sec("DYNSYM", 3), TextSec>>, 3)
Unlinked2 == Of(<<Empty, TextSec, Sec("STRTAB", 0), Sec("SYMTAB", 5), Sec("DYNSYM", 2)>>, 2)
NoText    == Of(<<Empty, Sec("STRTAB", 0), Sec("SYMTAB", 1)>>, 1)
NoNames   == Of(<<Empty, TextSec, Sec("STRTAB", 0)>>, 1)
NoStrtab  == Of(<<Empty, TextSec>>, 1)
NoShdr    == Of(<<>>, 0)
NoPhdr    == [Complete EXCEPT !.phnum = 0]
Foreign   == [Complete EXCEPT !.supported = FALSE]

SomeFiles == {Complete, Unlinked2, NoText, NoNames, NoStrtab, NoShdr, NoPhdr, Foreign}
SomeJunk  == {Empty, Sec("STRTAB", 0)}
=============================================================================
