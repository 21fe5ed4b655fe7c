------------------------------ MODULE CodeScan ------------------------------
(***************************************************************************)
(* What the tools read out of a code image without running it:             *)
(* tools/mips_disasm.py, tools/static_xref.py, tools/mips_scanner.py.      *)
(*                                                                         *)
(* An image is a sequence of instruction words; word i lies at address     *)
(* Base + i - 1 (addresses count words).  A word is its decoded fields:    *)
(* imm is the immediate field, of Half values instead of 2^16, or the      *)
(* target of a jump.  A data address is a number below Half * Half.        *)
(***************************************************************************)
EXTENDS Integers, Sequences, FiniteSetsExt

CONSTANTS
    Registers,         \* the registers a program uses
    Half,              \* 2^16: how many values an immediate field has
    Base,              \* ELF_BASE, the address of the first word
    Window,            \* how far before its low half a high half may be
    SearchBack,        \* how many words are searched for a prologue
    Fallback,          \* size given to a function that has no return
    LargestFunction    \* size above which a function is not believed

ASSUME WidthAssumption == Half \in Nat \ {0} /\ Half % 2 = 0
ASSUME ImageAssumption ==
    {Base, Window, SearchBack, Fallback, LargestFunction} \subseteq Nat
-----------------------------------------------------------------------------
\* Decoding.

Branches == {"beq", "bne"}

\* The loads and stores static_xref looks at: a byte store is not among them.
Accesses == {"lw", "sw", "lb", "lbu", "lh", "lhu"}

IsJal(word) == word.op = "jal"
IsReturn(word) == word.op = "jr" /\ word.rs = "ra"
IsPrologue(word) ==
    word.op = "addiu" /\ word.rt = "sp" /\ word.rs = "sp" /\ word.imm >= Half \div 2

SignExtended(imm) == IF imm >= Half \div 2 THEN imm - Half ELSE imm

AddressOf(i) == Base + i - 1
Inside(img, address) == address \in Base..AddressOf(Len(img))
WordAt(img, address) == img[address - Base + 1]
Jals(img) == {AddressOf(i) : i \in {j \in DOMAIN img : IsJal(img[j])}}
ReturnSites(img) == {AddressOf(i) : i \in {j \in DOMAIN img : IsReturn(img[j])}}

\* Where a branch or a jump read at an address goes to.
Destination(address, word) ==
    IF word.op \in Branches THEN address + 1 + SignExtended(word.imm)
                            ELSE word.imm

(* static_xref.py.                                                         *)

FindCallers(img, target) == {a \in Jals(img) : WordAt(img, a).imm = target}

Low(address) == address % Half

HighFor_NoCarry(word, address) == address \div Half   \* mutant: no sign carry

\* The high half that a low half needs: only ori does not sign-extend it.
HighFor(word, address) ==
    (address \div Half
       + IF word.op # "ori" /\ Low(address) >= Half \div 2 THEN 1 ELSE 0) % Half

FindDatarefs(img, address) ==
    {AddressOf(i) : i \in {k \in DOMAIN img :
        /\ img[k].op \in {"addiu", "ori"} \cup Accesses
        /\ img[k].imm = Low(address)
        /\ \E j \in (k - Window)..(k - 1) :
              /\ j \in DOMAIN img
              /\ img[j].op = "lui"
              /\ img[j].rt = img[k].rs
              /\ img[j].imm = HighFor(img[k], address)}}

\* The nearest prologue at or before an address, among the last SearchBack words;
\* the first word of the image is never looked at, 0 stands for none.
FunctionStart(img, address) ==
    LET found == {a \in (address - SearchBack + 1)..address :
                    a > Base /\ Inside(img, a) /\ IsPrologue(WordAt(img, a))}
    IN IF found = {} THEN 0 ELSE Max(found)

\* mips_disasm func: from there to the first return and its delay slot.
FuncRegion(img, address) ==
    LET start == FunctionStart(img, address)
        returns == {a \in ReturnSites(img) : a >= start}
    IN IF start = 0 \/ returns = {} THEN {} ELSE start..(Min(returns) + 1)

(* mips_scanner.py.                                                        *)

End_Last(img, start) ==                      \* mutant: the last return, not the next
    LET returns == {a \in ReturnSites(img) : a > start}
    IN IF returns = {} THEN start + Fallback ELSE Max(returns) + 1

\* A function ends at the next return after its first word.
End(img, start) ==
    LET returns == {a \in ReturnSites(img) : a > start}
    IN IF returns = {} THEN start + Fallback ELSE Min(returns) + 1

Function(img, start) ==
    [start |-> start, end |-> End(img, start),
     callers |-> {a \in Jals(img) : WordAt(img, a).imm = start}]

FindFunctions(img) ==
    {f \in {Function(img, WordAt(img, a).imm) : a \in Jals(img)} :
        Inside(img, f.start) /\ f.end - f.start \in 1..LargestFunction}

Candidate(kind, site, word) == [kind |-> kind, site |-> site, original |-> word]

\* Where an instruction that cannot be patched may be hooked instead: the
\* entry of the function around it, the calls of that function, calls nearby.
FindHookCandidates(img, target) ==
    LET around == {f \in FindFunctions(img) : target \in f.start..(f.end - 1)}
        nearby == {a \in Jals(img) : a \in (target - 64)..(target + 63)}
        Hooks(kind, sites) ==
            {Candidate(kind, a, WordAt(img, a)) : a \in sites}
    IN Hooks("nearby_jal", nearby) \cup
       IF around = {} THEN {}
       ELSE LET f == CHOOSE g \in around : \A h \in around : g.start <= h.start
            IN Hooks("function_entry_inline", {f.start})
                 \cup Hooks("caller_jal", f.callers)
=============================================================================
