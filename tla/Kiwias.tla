------------------------------- MODULE Kiwias -------------------------------
(***************************************************************************)
(* The assembler kiwias (lib/kiwias/main.c).                               *)
(*                                                                         *)
(* Pass 1, parse_asm, reads the source line by line.  It predicts in       *)
(* cur_pos where in .text each instruction will stand, and records a       *)
(* relocation at that place for every `la`.  Pass 2, main, writes the ELF  *)
(* object section by section; what the sections say of each other (symbol  *)
(* and string indices, offsets, section numbers) is computed on the way.   *)
(* One step is one line, one turn of an output loop, or one section.       *)
(***************************************************************************)
EXTENDS Naturals, Sequences

CONSTANTS
  Names,      \* the symbols the source mentions
  Length,     \* strlen of every string that can be in a string table
  Lines,      \* the lines the source may hold: records [op, name]
  MaxNodes    \* bound: instructions in the source

NoName == ""
MAIN == "main"
LABEL == ".L0 "

Arith == {"addi", "add", "sub"}

ASSUME KiwiasAssumption ==
  /\ LABEL \notin Names /\ NoName \notin Names
  /\ Length \in [Names \cup {NoName, MAIN, LABEL} -> Nat]
  /\ \A n \in DOMAIN Length : Length[n] = 0 <=> n = NoName
  /\ MaxNodes \in Nat
  /\ \A l \in Lines :
       /\ l.op \in Arith \cup {"la", "jr ra", "jr", "other", "bad"}
       /\ l.op = "la" => l.name \in Names

VARIABLES
  pc,             \* which function runs
  nodes,          \* the instructions parsed; symbol is NoName unless kind is "la"
  symbols,        \* the symbols `la` mentions, each once
  relocations,    \* what pass 2 has to relocate, and with which symtab entries
  cur_pos,        \* pass 1: offset in .text of the next instruction
  i,              \* pass 2: where the running loop is
  idx,            \* gen_symtab_section: index of the next entry of .symtab
  offset,         \* ftell(out_file)
  section,        \* offset and size of each section written so far
  text,           \* the words of .text; node: the instruction a word stems from
  strtab_records, \* the strings of .strtab
  symtab,         \* the entries of .symtab
  sh_info,        \* sh_info_for_symtab
  rela,           \* the entries of .rela.text
  headers         \* e_shoff, e_shnum, e_shstrndx and the section header table

pass1 == <<nodes, symbols, relocations, cur_pos>>
tables == <<strtab_records, symtab, sh_info, rela, headers>>
vars == <<pc, pass1, i, idx, offset, section, text, tables>>

Sections == {"text", "data", "bss", "symtab", "strtab", "rela", "shstrtab"}

InternalError == pc' = "internal"
Unwritten == [offset |-> 0, size |-> 0]

Init ==
  /\ pc = "parse"
  /\ nodes = <<>> /\ symbols = <<>> /\ relocations = <<>>
  /\ cur_pos = 0 /\ i = 0 /\ idx = 0 /\ offset = 0
  /\ section = [s \in Sections |-> Unwritten]
  /\ text = <<>>
  /\ strtab_records = <<NoName>>
  /\ symtab = <<>> /\ sh_info = 0 /\ rela = <<>>
  /\ headers = [shoff |-> 0, shnum |-> 7, shstrndx |-> 6, entries |-> <<>>]
-----------------------------------------------------------------------------
(* Pass 1.                                                                 *)

Elements(s) == {s[k] : k \in 1 .. Len(s)}

add_node(kind, name, size) ==
  /\ Len(nodes) < MaxNodes
  /\ nodes' = Append(nodes, [kind |-> kind, symbol |-> name, pos |-> cur_pos])
  /\ cur_pos' = cur_pos + size
  /\ UNCHANGED <<pc, i, idx, offset, section, text, tables>>

ParseArith(l) ==
  /\ l.op \in Arith
  /\ add_node(l.op, NoName, 4)
  /\ UNCHANGED <<symbols, relocations>>

\* Mutant: `la` is counted as one instruction.
ParseLaShort(l) ==
  /\ l.op = "la"
  /\ add_node("la", l.name, 4)
  /\ symbols' = IF l.name \in Elements(symbols) THEN symbols ELSE Append(symbols, l.name)
  /\ relocations' = Append(relocations, [pos |-> cur_pos, name |-> l.name, symbol |-> 0, label |-> 0])

ParseLa(l) ==
  /\ l.op = "la"
  /\ add_node("la", l.name, 8)
  /\ symbols' = IF l.name \in Elements(symbols) THEN symbols ELSE Append(symbols, l.name)
  /\ relocations' = Append(relocations, [pos |-> cur_pos, name |-> l.name, symbol |-> 0, label |-> 0])

\* `jr` with another register than ra is an instruction for is_instruction,
\* but no branch of parse_statement takes it: the node stays as calloc made
\* it, of kind 0, which is ND_INST_ADDI, and cur_pos stays too.
ParseJr(l) ==
  /\ \/ l.op = "jr ra" /\ add_node("jr", NoName, 4)
     \/ l.op = "jr" /\ add_node("addi", NoName, 0)
  /\ UNCHANGED <<symbols, relocations>>

\* A directive, a label or a comment is passed over.
IgnoreLine(l) == l.op = "other" /\ UNCHANGED vars

\* An instruction whose operands do not parse.
ParseError(l) ==
  /\ l.op = "bad"
  /\ pc' = "error"
  /\ UNCHANGED <<pass1, i, idx, offset, section, text, tables>>

\* The end of the source, and the ELF header.  With no instruction in the
\* source, parse_asm returns the uninitialised head.next, which may be null
\* or not a pointer at all.
OpenOutput ==
  /\ pc = "parse"
  /\ pc' \in {"text", "error"} \cup (IF nodes = <<>> THEN {"crash"} ELSE {})
  /\ i' = 1
  /\ offset' = 64
  /\ section' = [section EXCEPT !["text"].offset = 64]
  /\ UNCHANGED <<pass1, idx, text, tables>>
-----------------------------------------------------------------------------
(* Pass 2: .text, .data and .bss.                                          *)

Words(n) == IF nodes[n].kind = "la"
            THEN <<[op |-> "auipc", node |-> n], [op |-> "addi", node |-> n]>>
            ELSE <<[op |-> nodes[n].kind, node |-> n]>>

TextNode ==
  /\ pc = "text" /\ i <= Len(nodes)
  /\ text' = text \o Words(i)
  /\ offset' = offset + 4 * Len(Words(i))
  /\ i' = i + 1
  /\ UNCHANGED <<pc, pass1, idx, section, tables>>

\* Nothing is written to .data and .bss.
EndText ==
  /\ pc = "text" /\ i > Len(nodes)
  /\ section' = [section EXCEPT !["text"].size = offset - section["text"].offset,
                                !["data"].offset = offset, !["bss"].offset = offset]
  /\ pc' = "strtab_records"
  /\ UNCHANGED <<pass1, i, idx, offset, text, tables>>

\* Mutant: .L0 is recorded for the first symbol alone.
prepare_strtab_recordsOnce ==
  /\ pc = "strtab_records"
  /\ strtab_records' = strtab_records \o (IF Len(symbols) = 1 THEN <<LABEL>> ELSE <<>>)
                         \o <<MAIN>> \o symbols
  /\ pc' = "symtab"
  /\ UNCHANGED <<pass1, i, idx, offset, section, text, symtab, sh_info, rela, headers>>

prepare_strtab_records ==
  /\ pc = "strtab_records"
  /\ strtab_records' = strtab_records \o (IF symbols # <<>> THEN <<LABEL>> ELSE <<>>)
                         \o <<MAIN>> \o symbols
  /\ pc' = "symtab"
  /\ UNCHANGED <<pass1, i, idx, offset, section, text, symtab, sh_info, rela, headers>>
-----------------------------------------------------------------------------
(* Pass 2: .symtab and .strtab.                                            *)

SizeofSymbol == 24
SizeofRela == 24
SizeofSectionHeader == 64

\* align_file(out_file, 8)
Aligned8(n) == n + ((8 - (n % 8)) % 8)

\* Where the k-th string of .strtab begins.
StringOffset(k) ==
  LET off[j \in 1 .. k] == IF j = 1 THEN 0 ELSE off[j - 1] + Length[strtab_records[j - 1]] + 1
  IN  off[k]

InStrtab(name) == name \in Elements(strtab_records)

index_in_strtab(name) ==
  StringOffset(CHOOSE k \in 1 .. Len(strtab_records) :
                 /\ strtab_records[k] = name
                 /\ \A j \in 1 .. k - 1 : strtab_records[j] # name)

Local(type, shndx, value, name) ==
  [name |-> name, bind |-> "local", type |-> type, shndx |-> shndx, value |-> value]
Global(shndx, name) ==
  [name |-> name, bind |-> "global", type |-> "notype", shndx |-> shndx, value |-> 0]

rela_exists == relocations # <<>>

Put(entry) ==
  /\ symtab' = Append(symtab, entry)
  /\ idx' = idx + 1
  /\ offset' = offset + SizeofSymbol

\* Mutant: .symtab begins where .text ends, aligned or not.
SymtabStartUnaligned ==
  /\ pc = "symtab"
  /\ symtab' = <<Local("notype", 0, 0, 0), Local("section", 1, 0, 0),
                 Local("section", IF rela_exists THEN 3 ELSE 2, 0, 0),
                 Local("section", IF rela_exists THEN 4 ELSE 3, 0, 0)>>
  /\ section' = [section EXCEPT !["symtab"].offset = offset]
  /\ offset' = offset + SizeofSymbol * 4
  /\ idx' = 4
  /\ i' = 1
  /\ pc' = "labels"
  /\ UNCHANGED <<pass1, text, strtab_records, sh_info, rela, headers>>

\* The null symbol and one for each of .text, .data and .bss.
SymtabStart ==
  /\ pc = "symtab"
  /\ symtab' = <<Local("notype", 0, 0, 0), Local("section", 1, 0, 0),
                 Local("section", IF rela_exists THEN 3 ELSE 2, 0, 0),
                 Local("section", IF rela_exists THEN 4 ELSE 3, 0, 0)>>
  /\ section' = [section EXCEPT !["symtab"].offset = Aligned8(offset)]
  /\ offset' = Aligned8(offset) + SizeofSymbol * 4
  /\ idx' = 4
  /\ i' = 1
  /\ pc' = "labels"
  /\ UNCHANGED <<pass1, text, strtab_records, sh_info, rela, headers>>

\* A local label .L0 for every relocation; it stands at the auipc.
SymtabLabel ==
  /\ pc = "labels" /\ i <= Len(relocations)
  /\ IF InStrtab(LABEL)
     THEN /\ Put(Local("notype", 1, relocations[i].pos, index_in_strtab(LABEL)))
          /\ relocations' = [relocations EXCEPT ![i].label = idx]
          /\ i' = i + 1
          /\ pc' = pc
     ELSE InternalError /\ UNCHANGED <<symtab, idx, offset, relocations, i>>
  /\ UNCHANGED <<nodes, symbols, cur_pos, section, text, strtab_records, sh_info, rela, headers>>

\* Mutant: sh_info is taken after main has been counted.
SymtabMainLate ==
  /\ pc = "labels" /\ i > Len(relocations)
  /\ sh_info' = idx + 1
  /\ IF InStrtab(MAIN)
     THEN Put(Global(1, index_in_strtab(MAIN))) /\ pc' = "globals"
     ELSE InternalError /\ UNCHANGED <<symtab, idx, offset>>
  /\ i' = 1
  /\ UNCHANGED <<pass1, section, text, strtab_records, rela, headers>>

SymtabMain ==
  /\ pc = "labels" /\ i > Len(relocations)
  /\ sh_info' = idx
  /\ IF InStrtab(MAIN)
     THEN Put(Global(1, index_in_strtab(MAIN))) /\ pc' = "globals"
     ELSE InternalError /\ UNCHANGED <<symtab, idx, offset>>
  /\ i' = 1
  /\ UNCHANGED <<pass1, section, text, strtab_records, rela, headers>>

\* Mutant: the search ends at the first relocation of the name.
update_relocationFirst(name, n) ==
  LET first == CHOOSE r \in 1 .. Len(relocations) :
                 /\ relocations[r].name = name
                 /\ \A q \in 1 .. r - 1 : relocations[q].name # name
  IN  [relocations EXCEPT ![first].symbol = n]

update_relocation(name, n) ==
  [r \in 1 .. Len(relocations) |->
     IF relocations[r].name = name
     THEN [relocations[r] EXCEPT !.symbol = n]
     ELSE relocations[r]]

SymtabSymbol ==
  /\ pc = "globals" /\ i <= Len(symbols)
  /\ IF InStrtab(symbols[i])
     THEN /\ Put(Global(0, index_in_strtab(symbols[i])))
          /\ relocations' = update_relocation(symbols[i], idx)
          /\ i' = i + 1
          /\ pc' = pc
     ELSE InternalError /\ UNCHANGED <<symtab, idx, offset, relocations, i>>
  /\ UNCHANGED <<nodes, symbols, cur_pos, section, text, strtab_records, sh_info, rela, headers>>

\* The end of .symtab, and .strtab.
gen_strtab_section ==
  /\ pc = "globals" /\ i > Len(symbols)
  /\ offset' = offset + StringOffset(Len(strtab_records))
                      + Length[strtab_records[Len(strtab_records)]] + 1
  /\ section' = [section EXCEPT !["symtab"].size = offset - section["symtab"].offset,
                                !["strtab"] = [offset |-> offset, size |-> offset' - offset]]
  /\ pc' = "rela"
  /\ i' = 1
  /\ UNCHANGED <<pass1, idx, text, tables>>
-----------------------------------------------------------------------------
(* Pass 2: .rela.text, .shstrtab and the headers.                          *)

RelaStart ==
  /\ pc = "rela"
  /\ offset' = IF rela_exists THEN Aligned8(offset) ELSE offset
  /\ section' = [section EXCEPT !["rela"].offset = offset']
  /\ pc' = "rela_loop"
  /\ UNCHANGED <<pass1, i, idx, text, tables>>

Rela(at, type, sym) == [offset |-> at, type |-> type, sym |-> sym]

RelaEntry ==
  /\ pc = "rela_loop" /\ i <= Len(relocations)
  /\ LET r == relocations[i]
     IN  rela' = rela \o <<Rela(r.pos, "pcrel_hi20", r.symbol), Rela(r.pos, "relax", 0),
                           Rela(r.pos + 4, "pcrel_lo12", r.label), Rela(r.pos + 4, "relax", 0)>>
  /\ offset' = offset + SizeofRela * 4
  /\ i' = i + 1
  /\ UNCHANGED <<pc, pass1, idx, section, text, strtab_records, symtab, sh_info, headers>>

\* The string table of section names, in the order of its strings.  With
\* relocations, ".rela.text" stands in the place of ".text".
ShstrtabStrings ==
  <<"null", "symtab", "strtab", "shstrtab", IF rela_exists THEN "rela" ELSE "text", "data", "bss">>
NameLength == [null |-> 0, symtab |-> 7, strtab |-> 7, shstrtab |-> 9, text |-> 5, rela |-> 10,
               data |-> 5, bss |-> 4]
NameOffset(k) ==
  LET off[j \in 1 .. k] == IF j = 1 THEN 0 ELSE off[j - 1] + NameLength[ShstrtabStrings[j - 1]] + 1
  IN  off[k]

\* ".text" is found inside ".rela.text", 5 bytes behind its start.
find_idx_in_shstrtab(name) ==
  LET k == CHOOSE k \in 1 .. 7 :
             ShstrtabStrings[k] = name \/ (name = "text" /\ ShstrtabStrings[k] = "rela")
  IN  NameOffset(k) + IF ShstrtabStrings[k] = name THEN 0 ELSE 5

\* The end of .rela.text, .shstrtab, and the padding behind it.
gen_shstrtab_section ==
  /\ pc = "rela_loop" /\ i > Len(relocations)
  /\ LET size == NameOffset(7) + NameLength["bss"] + 1
     IN  /\ section' = [section EXCEPT !["rela"].size = offset - section["rela"].offset,
                                       !["shstrtab"] = [offset |-> offset, size |-> size]]
         /\ offset' = Aligned8(offset + size)
  /\ pc' = "headers"
  /\ UNCHANGED <<pass1, i, idx, text, tables>>

\* fix_elf_header and gen_section_header_table.
Entry(s, link, info) ==
  [sec |-> s, name |-> find_idx_in_shstrtab(s), offset |-> section[s].offset,
   size |-> section[s].size, link |-> link, info |-> info]

\* Mutant: .rela.text is not counted in e_shstrndx.
gen_section_header_tableStale ==
  /\ pc = "headers"
  /\ headers' =
       [shoff |-> offset,
        shnum |-> IF rela_exists THEN 8 ELSE headers.shnum,
        shstrndx |-> headers.shstrndx,
        entries |->
          <<[sec |-> "null", name |-> 0, offset |-> 0, size |-> 0, link |-> 0, info |-> 0],
            Entry("text", 0, 0)>>
          \o (IF rela_exists THEN <<Entry("rela", 5, 1)>> ELSE <<>>)
          \o <<Entry("data", 0, 0), Entry("bss", 0, 0),
               Entry("symtab", IF rela_exists THEN 6 ELSE 5, sh_info),
               Entry("strtab", 0, 0), Entry("shstrtab", 0, 0)>>]
  /\ offset' = offset + SizeofSectionHeader * Len(headers'.entries)
  /\ pc' = "done"
  /\ UNCHANGED <<pass1, i, idx, section, text, strtab_records, symtab, sh_info, rela>>

gen_section_header_table ==
  /\ pc = "headers"
  /\ headers' =
       [shoff |-> offset,
        shnum |-> IF rela_exists THEN 8 ELSE headers.shnum,
        shstrndx |-> IF rela_exists THEN 7 ELSE headers.shstrndx,
        entries |->
          <<[sec |-> "null", name |-> 0, offset |-> 0, size |-> 0, link |-> 0, info |-> 0],
            Entry("text", 0, 0)>>
          \o (IF rela_exists THEN <<Entry("rela", 5, 1)>> ELSE <<>>)
          \o <<Entry("data", 0, 0), Entry("bss", 0, 0),
               Entry("symtab", IF rela_exists THEN 6 ELSE 5, sh_info),
               Entry("strtab", 0, 0), Entry("shstrtab", 0, 0)>>]
  /\ offset' = offset + SizeofSectionHeader * Len(headers'.entries)
  /\ pc' = "done"
  /\ UNCHANGED <<pass1, i, idx, section, text, strtab_records, symtab, sh_info, rela>>
-----------------------------------------------------------------------------
ParseLine(l) ==
  /\ pc = "parse"
  /\ ParseArith(l) \/ ParseLa(l) \/ ParseJr(l) \/ IgnoreLine(l) \/ ParseError(l)

Write ==
  \/ TextNode \/ EndText \/ prepare_strtab_records
  \/ SymtabStart \/ SymtabLabel \/ SymtabMain \/ SymtabSymbol \/ gen_strtab_section
  \/ RelaStart \/ RelaEntry \/ gen_shstrtab_section \/ gen_section_header_table

Next == (\E l \in Lines : ParseLine(l)) \/ OpenOutput \/ Write

Spec == Init /\ [][Next]_vars
-----------------------------------------------------------------------------
Pass2 == {"text", "strtab_records", "symtab", "labels", "globals", "rela", "rela_loop", "headers"}
Node == [kind : Arith \cup {"la", "jr"}, symbol : Names \cup {NoName}, pos : Nat]
Relocation == [pos : Nat, name : Names, symbol : Nat, label : Nat]
Word == [op : Arith \cup {"auipc", "jr"}, node : Nat]

(***************************************************************************)
(* The two passes agree: once .text is written, the two words at the place *)
(* pass 1 recorded for a relocation are those of an `la` of that symbol,   *)
(* the words whose immediates the linker is to replace.                    *)
(***************************************************************************)
AtLa(r) ==
  \E k \in 1 .. Len(text) - 1 :
    /\ r.pos = 4 * (k - 1)
    /\ text[k].op = "auipc" /\ text[k + 1].op = "addi"
    /\ text[k + 1].node = text[k].node
    /\ nodes[text[k].node].symbol = r.name

RelocationsAtLa ==
  pc \in (Pass2 \cup {"done"}) \ {"text"} =>
    \A r \in 1 .. Len(relocations) : AtLa(relocations[r])

(***************************************************************************)
(* Every `la` of the program is relocated, in both its words: the auipc    *)
(* against the symbol it names, and the addi against a local label that    *)
(* stands at this auipc, as R_RISCV_PCREL_LO12_I demands.                  *)
(***************************************************************************)
StringAt(off, name) ==
  \E k \in 1 .. Len(strtab_records) : StringOffset(k) = off /\ strtab_records[k] = name

RelaAt(at, type) == {e \in Elements(rela) : e.offset = at /\ e.type = type}
SymbolOf(e) == symtab[e.sym + 1]

LaLinked ==
  pc = "done" =>
    \A k \in 1 .. Len(text) : text[k].op = "auipc" =>
      LET at == 4 * (k - 1)
          name == nodes[text[k].node].symbol
      IN  /\ \E e \in RelaAt(at, "pcrel_hi20") :
               SymbolOf(e).bind = "global" /\ StringAt(SymbolOf(e).name, name)
          /\ \E e \in RelaAt(at + 4, "pcrel_lo12") :
               /\ SymbolOf(e).bind = "local" /\ SymbolOf(e).shndx = 1
               /\ SymbolOf(e).value = at /\ StringAt(SymbolOf(e).name, LABEL)

(***************************************************************************)
(* ELF's rules for a symbol table: every entry before sh_info is local,    *)
(* none after it; the symbols of other files come once each; the section   *)
(* symbols name the sections the header table has at these places.         *)
(***************************************************************************)
SymtabWellFormed ==
  pc = "done" =>
    /\ \A k \in 1 .. Len(symtab) : symtab[k].bind = "local" <=> k <= sh_info
    /\ \A n \in Elements(symbols) :
         \E k \in 1 .. Len(symtab) : /\ symtab[k].shndx = 0 /\ StringAt(symtab[k].name, n)
                                     /\ \A j \in 1 .. Len(symbols) : symbols[j] = n =>
                                          k = Len(symtab) - Len(symbols) + j
    /\ {headers.entries[symtab[k].shndx + 1].sec : k \in 2 .. 4} = {"text", "data", "bss"}

(***************************************************************************)
(* The header table says where things are: the section numbers it uses,    *)
(* and those in the ELF header, are those of the sections meant.           *)
(***************************************************************************)
HeadersConsistent ==
  pc = "done" =>
    LET e == headers.entries
        Num(s) == (CHOOSE k \in 1 .. Len(e) : e[k].sec = s) - 1
    IN  /\ headers.shnum = Len(e)
        /\ headers.shstrndx = Num("shstrtab")
        /\ e[Num("symtab") + 1].link = Num("strtab")
        /\ rela_exists => /\ e[Num("rela") + 1].link = Num("symtab")
                          /\ e[Num("rela") + 1].info = Num("text")
        /\ e[Num("symtab") + 1].info = sh_info

(***************************************************************************)
(* Sections neither overlap each other nor the headers, and those with     *)
(* 8-byte fields begin at multiples of 8.                                  *)
(***************************************************************************)
LayoutSound ==
  pc = "done" =>
    /\ \A s, t \in Sections : s # t =>
         \/ section[s].offset + section[s].size <= section[t].offset
         \/ section[t].offset + section[t].size <= section[s].offset
    /\ \A s \in Sections : /\ 64 <= section[s].offset
                           /\ section[s].offset + section[s].size <= headers.shoff
    /\ section["symtab"].offset % 8 = 0 /\ headers.shoff % 8 = 0
    /\ rela_exists => section["rela"].offset % 8 = 0
    /\ section["text"].size = 4 * Len(text)
    /\ section["symtab"].size = SizeofSymbol * Len(symtab)
    /\ section["rela"].size = SizeofRela * Len(rela)

(***************************************************************************)
(* index_in_strtab never fails to find a name: what prepare_strtab_records *)
(* records suffices for what gen_symtab_section looks up.                  *)
(***************************************************************************)
StringsRecorded == pc # "internal"
=============================================================================
