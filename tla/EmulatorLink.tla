---------------------------- MODULE EmulatorLink ----------------------------
(***************************************************************************)
(* How a program finds the game: install.py puts the payload where the     *)
(* emulator loads it from, the payload's mailbox marks the emulated        *)
(* memory, and every tool looks for that mark in the memory of the         *)
(* emulator's process (mc3api/bridge.py, tools/mc3_api.py, run_explore.py, *)
(* probe_memory.py, live_inject.py).                                       *)
(*                                                                         *)
(* Memory is counted in pages, scaled down: what matters is how the sizes  *)
(* the scanners use compare to each other and to where the mailbox is.     *)
(***************************************************************************)
EXTENDS Integers, SequencesExt

CONSTANTS
    Inis,          \* contents PCSX2.ini may have: sequences of lines
    Layouts,       \* the memory of the process, an area per page
    Chunk,         \* 256 KiB, in pages
    Mib,           \* 1 MiB
    Near,          \* 10 MiB
    Far,           \* 150 MiB
    EeSize,        \* 32 MiB, the emulated memory
    MailboxPage,   \* the mailbox's page of it
    CodePages,     \* pages of it the game executes code from
    Builds,        \* versions of the payload
    MaxInstalls,   \* bound: times the installer is started
    MaxBoots       \* bound: times the emulator is started

\* A line of PCSX2.ini is the header [EmuCore] or another, EnableCheats on or
\* off, or any other line.
Core == "EmuCore"
Setting == "cheats_on"
Text == {Core, "EmuCore_GS", Setting, "cheats_off", "key"}
ASSUME InisAssumption == Inis \subseteq Seq(Text)
ASSUME SizesAssumption ==
    /\ {Chunk, Mib, Near, Far, EeSize, MailboxPage} \subseteq Nat
    /\ 1 < Chunk /\ Chunk < Mib /\ Mib < MailboxPage
    /\ MailboxPage + Chunk < Near /\ Near < EeSize /\ EeSize < Far
ASSUME PagesAssumption == CodePages \subseteq 0..(EeSize - 1)
\* The emulated memory is there once, whole; so is an image of it, if any.
ASSUME LayoutsAssumption ==
    \A l \in Layouts :
       /\ l \in Seq({"free", "other", "ee", "image"})
       /\ \A a \in {"ee", "image"} :
             LET pages == {c \in DOMAIN l : l[c] = a} IN
             pages # {} => Cardinality(pages) = EeSize
                           /\ Max(pages) - Min(pages) = EeSize - 1
       /\ \E c \in DOMAIN l : l[c] = "ee"

VARIABLES
    files,         \* what install.py changes, and what was there
    installing,    \* what the installer still has to do
    emu            \* the emulator: its process, memory and payload

linkVars == <<files, installing, emu>>

Off == [pid |-> 0, layout |-> <<>>, base |-> 0, marks |-> {},
        payload |-> FALSE, protected |-> {}]
Running == emu # Off

LinkInit ==
    /\ \E own \in BOOLEAN, ini \in Inis \cup {<<"missing">>}, b \in Builds :
          files = [pnach |-> IF own THEN "user" ELSE "none", bak |-> "none",
                   ini |-> ini, build |-> b, boots |-> 0, installs |-> 0,
                   had |-> own, complete |-> FALSE]
    /\ installing = <<>>
    /\ emu = Off
-----------------------------------------------------------------------------
(* install.py.  Any step may raise, and what follows it is not done.       *)

\* mutant: the backup is of what has just been copied there
InstallSteps_CopyFirst == <<"copy_payload", "back_up", "enable_cheats">>

InstallSteps == <<"back_up", "copy_payload", "enable_cheats">>

StartInstaller ==
    /\ installing = <<>>
    /\ files.installs < MaxInstalls
    /\ installing' = InstallSteps
    /\ files' = [files EXCEPT !.installs = @ + 1, !.complete = FALSE]
    /\ UNCHANGED emu

AbortInstaller ==
    /\ installing # <<>>
    /\ installing' = <<>>
    /\ UNCHANGED <<files, emu>>

\* One .bak file, overwritten by whatever is there now.
BackUp(f) == IF f.pnach = "none" THEN f ELSE [f EXCEPT !.bak = f.pnach]

OwnLine(line) == line \in {Setting, "cheats_off"}
Header(line) == line \in {Core, "EmuCore_GS"}

\* What the loop of enable_cheats makes of a line, after those before it.
Line(acc, line) ==
    LET leaves == Header(line) /\ acc.inside /\ ~acc.done
        inside == IF Header(line) THEN line = Core ELSE acc.inside
        out == IF leaves THEN Append(acc.out, Setting) ELSE acc.out
    IN IF inside /\ OwnLine(line)
       THEN [out |-> Append(out, Setting), inside |-> TRUE, done |-> TRUE]
       ELSE [out |-> Append(out, line), inside |-> inside,
             done |-> acc.done \/ leaves]

Enabled_AtTheEnd(lines) == Append(lines, Setting)   \* mutant: in any section

\* enable_cheats: the setting goes to the section it belongs to.
Enabled(lines) ==
    LET after[k \in 0..Len(lines)] ==
            IF k = 0 THEN [out |-> <<>>, inside |-> FALSE, done |-> FALSE]
            ELSE Line(after[k - 1], lines[k])
        last == after[Len(lines)]
    IN IF last.done THEN last.out
       ELSE IF last.inside THEN Append(last.out, Setting)
       ELSE last.out \o <<Core, Setting>>

HasIni(f) == f.ini # <<"missing">>

Installed(f, step) ==
    CASE step = "back_up" -> BackUp(f)
      [] step = "copy_payload" -> [f EXCEPT !.pnach = "ours"]
      [] step = "enable_cheats" ->
            [f EXCEPT !.ini = IF HasIni(f) THEN Enabled(@) ELSE @,
                      !.complete = HasIni(f)]

InstallStep ==
    /\ installing # <<>>
    /\ files' = Installed(files, Head(installing))
    /\ installing' = Tail(installing)
    /\ UNCHANGED emu
-----------------------------------------------------------------------------
(* The emulator (external).  It reads a setting from the section it is in, *)
(* loads the payload if told so, protects the pages it has translated code *)
(* of, and may end at any time.                                            *)

SectionOf(lines, i) ==
    LET headers == {j \in 1..i : Header(lines[j])}
    IN IF headers = {} THEN "none" ELSE lines[Max(headers)]
CheatsOn(lines) ==
    \E i \in DOMAIN lines : /\ lines[i] = Setting
                            /\ SectionOf(lines, i) = Core

\* Where there is a mailbox: the marker and the game's checksum after it.
Marked(l, payload) ==
    ({"image"} \cap Range(l)) \cup (IF payload THEN {"ee"} ELSE {})

Boot ==
    /\ ~Running
    /\ files.boots < MaxBoots
    /\ files' = [files EXCEPT !.boots = @ + 1]
    /\ \E l \in Layouts :
       LET First(a) == Min({c \in DOMAIN l : l[c] = a})
           payload == CheatsOn(files.ini) /\ files.pnach = "ours"
       IN emu' = [pid |-> files.boots + 1, layout |-> l, base |-> First("ee"),
                  marks |-> {First(a) + MailboxPage : a \in Marked(l, payload)},
                  payload |-> payload, protected |-> {}]
    /\ UNCHANGED installing

Exit == Running /\ emu' = Off /\ UNCHANGED <<files, installing>>

Execute(page) ==
    /\ Running /\ emu.base + page \notin emu.protected
    /\ emu' = [emu EXCEPT !.protected = @ \cup {emu.base + page}]
    /\ UNCHANGED <<files, installing>>
-----------------------------------------------------------------------------
(* The memory of the process as VirtualQueryEx lists it: regions of pages  *)
(* that are alike.                                                         *)

Pages == DOMAIN emu.layout
Alike(c, d) ==
    /\ emu.layout[c] = emu.layout[d]
    /\ (c \in emu.protected) = (d \in emu.protected)
Starts == {c \in Pages : c > 1 => ~Alike(c - 1, c)}

Readable(from, to) ==
    \A c \in from..to : c \in Pages /\ emu.layout[c] # "free"

(* The scanners: the least region they look into, how far into it and in   *)
(* what pieces, whether a last piece is cut to the region's end, and the   *)
(* version they insist on, if they do.                                     *)
\* mutant: looks into large regions only
BridgeScan_Large ==
    [least |-> Mib, upto |-> Far, piece |-> Chunk, cut |-> FALSE, builds |-> Builds]

BridgeScan ==
    [least |-> 1, upto |-> Far, piece |-> Chunk, cut |-> FALSE, builds |-> Builds]

ApiScan ==
    [least |-> 1, upto |-> Near, piece |-> Chunk, cut |-> TRUE, builds |-> Builds]
ExploreScan ==
    [least |-> 1, upto |-> Near, piece |-> Chunk, cut |-> TRUE, builds |-> Builds]
ProbeScan ==
    [least |-> 1, upto |-> Far, piece |-> Chunk, cut |-> FALSE, builds |-> {9}]
InjectScan ==
    [least |-> Mib, upto |-> Mib, piece |-> Mib, cut |-> TRUE, builds |-> Builds]

\* The pages read of the region of n pages that starts at c: up to the first
\* failure.
PagesRead(s, c, n) ==
    LET offsets == {o \in 0..(Min({n, s.upto}) - 1) : o % s.piece = 0}
        End(o) == c + o - 1 + IF s.cut THEN Min({s.piece, n - o}) ELSE s.piece
        failed == {o \in offsets : ~Readable(c + o, End(o))}
    IN UNION {(c + o)..End(o) : o \in {p \in offsets : \A q \in failed : p < q}}

\* Where the scan ends: the first match, or 0 if there is none.
Scan(s) ==
    LET starts == Starts
        Size(c) == Min({d \in starts : d > c} \cup {Len(emu.layout) + 1}) - c
        regions == {c \in starts : emu.layout[c] # "free" /\ Size(c) >= s.least}
        wanted == IF files.build \in s.builds THEN emu.marks ELSE {}
        found == wanted \cap UNION {PagesRead(s, c, Size(c)) : c \in regions}
    IN IF found = {} THEN 0 ELSE Min(found)

\* An image of the memory that the scan meets first is taken for the game.
Misled == \E c \in emu.marks : c < emu.base
-----------------------------------------------------------------------------
Installer == StartInstaller \/ AbortInstaller \/ InstallStep
Emulator == Boot \/ Exit \/ \E page \in CodePages : Execute(page)

(* Once an installation has been completed where the emulator has its      *)
(* settings, the game that is booted next has the payload, wherever in the *)
(* file the setting was missing or off.                                    *)
InstalledGameHasPayload ==
    [][~Running /\ emu'.pid # 0 /\ files.complete => emu'.payload]_linkVars

(* The cheats the player had are never lost, however the installer ends,   *)
(* as long as it was started once: its second backup is of its own file.   *)
CheatsAreKept ==
    files.had /\ files.installs <= 1 => "user" \in {files.pnach, files.bak}

(* The bridge, mc3_api and run_explore find the mailbox of a game that has *)
(* it, whatever pages the emulator has protected by then, unless an image  *)
(* of the memory stands before it: they take the first mark they meet.     *)
PayloadIsFound ==
    Running /\ emu.payload /\ ~Misled =>
       \A s \in {BridgeScan, ApiScan, ExploreScan} :
          Scan(s) = emu.base + MailboxPage
=============================================================================
