----------------------------- MODULE Assembler ------------------------------
(***************************************************************************)
(* The assembler the trampolines are written with                          *)
(* (tools/mips_assembler.py): a program is emitted word by word, names are *)
(* given to places before or after they are used, and link() fills in the  *)
(* references.  A program may be linked, listed (which links again),       *)
(* extended and linked again.  Its image is what the tools of CodeScan     *)
(* read.                                                                   *)
(***************************************************************************)
EXTENDS CodeScan

CONSTANTS
    Names,             \* the labels
    Immediates,        \* the immediates a program asks for
    DataAddresses,     \* the addresses it loads
    Operations,        \* the I-type instructions it has
    MaxLength          \* bound: words of a program

ASSUME ProgramAssumption ==
    Immediates \subseteq Int /\ DataAddresses \subseteq 0..(Half * Half - 1)
ASSUME OperationsAssumption ==
    Operations \subseteq {"ori", "addiu", "lw", "sw", "lb", "lbu", "sb"}

VARIABLES
    text,              \* _instructions
    labels,            \* _labels: the name given to an address, the last time
    pending,           \* _pending: references to fill in
    image,             \* what the last link() returned, <<>> before
    meant              \* the labels as they were then

programVars == <<text, labels, pending, image, meant>>
-----------------------------------------------------------------------------
Word(op, rt, rs, imm) == [op |-> op, rt |-> rt, rs |-> rs, imm |-> imm]
Nop == Word("nop", "zero", "zero", 0)

Here == AddressOf(Len(text) + 1)
Room(n) == Len(text) + n <= MaxLength

ProgramInit ==
    /\ text = <<>> /\ labels = <<>> /\ pending = <<>>
    /\ image = <<>> /\ meant = <<>>

\* _emit.
Emitted(words) ==
    /\ Room(Len(words))
    /\ text' = text \o words
    /\ UNCHANGED <<labels, image, meant>>

Emit(words) == Emitted(words) /\ UNCHANGED pending

\* The name moves silently when it was given before.
Lbl(name) ==
    /\ labels' = [n \in DOMAIN labels \cup {name} |->
                    IF n = name THEN Here ELSE labels[n]]
    /\ UNCHANGED <<text, pending, image, meant>>

\* R-type: what they compute is of no concern, which register they write is.
RType(rd) == Emit(<<Word("alu", rd, "zero", 0)>>)
Jr(rs) == Emit(<<Word("jr", "zero", rs, 0)>>)

\* A value neither a signed nor an unsigned half is refused: nothing is emitted.
Fits(imm) == imm \in (-(Half \div 2))..(Half - 1)
Imm16(imm) == imm % Half

IType(op, rt, rs, imm) ==
    /\ Fits(imm)
    /\ Emit(<<Word(op, rt, rs, Imm16(imm))>>)

\* load_addr and load_imm: no low half where it is zero.
LoadAddr(r, address) ==
    LET upper == Word("lui", r, "zero", address \div Half)
        lower == Word("ori", r, r, Low(address))
    IN Emit(IF Low(address) = 0 THEN <<upper>> ELSE <<upper, lower>>)

\* beq, bne, j, jal: an empty word, to be filled in when the name is known.
Reference(op, name) ==
    /\ pending' = Append(pending, [at |-> Len(text) + 1, op |-> op, name |-> name])
    /\ Emitted(<<Nop>>)

Offset_FromBranch(at, target) == (target - AddressOf(at)) % Half   \* mutant

\* Counted from the delay slot, cut to the field's width whatever it is.
Offset(at, target) == (target - AddressOf(at) - 1) % Half

Resolved(ref) ==
    Word(ref.op, "zero", "zero",
         IF ref.op \in Branches THEN Offset(ref.at, labels[ref.name])
                                ELSE labels[ref.name])

References(n) == 1..n

\* The text with the first n references filled in.
Filled(n) ==
    [i \in DOMAIN text |->
        LET refs == {k \in References(n) : k > 0 /\ pending[k].at = i}
        IN IF refs = {} THEN text[i] ELSE Resolved(pending[Max(refs)])]

\* link, and the listings, which link again: a name nobody gave a place to
\* raises when its reference is reached.
Link ==
    LET missing == {k \in DOMAIN pending : pending[k].name \notin DOMAIN labels}
    IN
    /\ text # <<>>
    /\ IF missing = {}
       THEN /\ text' = Filled(Len(pending))
            /\ image' = text'
            /\ meant' = labels
       ELSE /\ text' = Filled(Min(missing) - 1)
            /\ UNCHANGED <<image, meant>>
    /\ UNCHANGED <<labels, pending>>

ProgramNext ==
    \/ Link
    \/ \E n \in Names : Lbl(n)
    \/ \E n \in Names, op \in {"beq", "jal"} : Reference(op, n)
    \/ Jr("ra")
    \/ \E i \in Immediates : IType("addiu", "sp", "sp", i)
    \/ \E r \in Registers :
          \/ RType(r)
          \/ \E a \in DataAddresses : LoadAddr(r, a)
          \/ \E i \in Immediates :
                \/ IType("lui", r, "zero", i)
                \/ \E op \in Operations, s \in Registers :
                      IType(op, r, s, i)

ProgramSpec == ProgramInit /\ [][ProgramNext]_programVars
-----------------------------------------------------------------------------
\* Labels are written by hand next to the code they name: close enough for a
\* branch, unless the distance does not fit its field.
Near(ref) ==
    meant[ref.name] - AddressOf(ref.at) - 1 \in (-(Half \div 2))..(Half \div 2 - 1)

(* In a linked image every reference, as the disassembler and the game read *)
(* it, goes to the place of its label, those that were filled in by an      *)
(* earlier link and have moved since included.                             *)
ReferencesLand ==
    \A k \in DOMAIN pending :
       LET ref == pending[k] IN
       ref.at <= Len(image) =>
          /\ image[ref.at].op = ref.op
          /\ (ref.op = "jal" \/ Near(ref)) =>
                Destination(AddressOf(ref.at), image[ref.at]) = meant[ref.name]

\* The last word before i that writes the register word i reads.
Writes(word, r) ==
    word.rt = r /\ word.op \in {"lui", "ori", "addiu", "lw", "lb", "lbu", "alu"}
Writer(i) == Max({j \in 1..(i - 1) : Writes(image[j], image[i].rs)} \cup {0})
Built(i) ==
    LET high == image[Writer(i)].imm
        low == image[i].imm
    IN (high * Half + IF image[i].op = "ori" THEN low ELSE SignExtended(low))
          % (Half * Half)
Uses == {"ori", "addiu", "sb"} \cup Accesses
LoadsAreFound ==
    \A i \in DOMAIN image :
       (/\ image[i].op \in Uses
        /\ Writer(i) \in (i - Window)..(i - 1) /\ Writer(i) > 0
        /\ image[Writer(i)].op = "lui")
       => (AddressOf(i) \in FindDatarefs(image, Built(i)) <=> image[i].op # "sb")
CallsAreFound ==
    \A k \in DOMAIN pending :
       LET ref == pending[k] IN
       (ref.op = "jal" /\ ref.at <= Len(image)) =>
          /\ AddressOf(ref.at) \in FindCallers(image, meant[ref.name])
          /\ \A f \in FindFunctions(image) :
                f.start = meant[ref.name] => f.callers = FindCallers(image, f.start)

(* What a program refers to is found in its image.  A word that uses an     *)
(* address as a high half and a low half of its own, the high half loaded   *)
(* no further back than the window and its register not written since, is   *)
(* found by static_xref with no sign lost, unless it stores a byte: such a  *)
(* use is never found.  And both scanners find every call of a label: the   *)
(* sites a hook on that function has to patch.                              *)
EveryUseIsFound == LoadsAreFound /\ CallsAreFound

(* The entry proposed for a hook runs on to the instruction it stands for,  *)
(* and the listing of the function around an instruction does: no return    *)
(* lies between, unless the function is that return, or the listing ends    *)
(* with the instruction as its delay slot.                                  *)
EntryRunsToTarget ==
    \A target \in Base..AddressOf(Len(image)) :
       /\ \A c \in FindHookCandidates(image, target) :
             c.kind = "function_entry_inline" =>
                /\ c.site <= target
                /\ \A a \in (c.site + 1)..(target - 1) : ~IsReturn(WordAt(image, a))
       /\ target \in FuncRegion(image, target) =>
             \A a \in FunctionStart(image, target)..(target - 2) :
                ~IsReturn(WordAt(image, a))
=============================================================================
