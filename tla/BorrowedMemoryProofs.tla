------------------------ MODULE BorrowedMemoryProofs -------------------------
(***************************************************************************)
(* BorrowedMemory for any settings file, memory layout, number of boots    *)
(* and set of tools: what the installer leaves of the player's cheats and  *)
(* makes of PCSX2.ini, where the scanners find the mailbox, and what a     *)
(* tool that pulses leaves of the words of the game.                       *)
(***************************************************************************)
EXTENDS BorrowedMemory, Arithmetic, TLAPS

Fields == {"pnach", "bak", "ini", "build", "boots", "installs", "had", "complete"}

Remaining == {<<>>, InstallSteps, <<"copy_payload", "enable_cheats">>,
              <<"enable_cheats">>}

Types ==
    /\ DOMAIN files = Fields
    /\ files.installs \in Nat
    /\ installing \in Remaining

\* Where the player's cheats are: in their place until the first backup is
\* made, in the backup from then on until an installer is started again.
CheatsAt(installs, steps, pnach, bak) ==
    /\ installs = 0 => steps = <<>> /\ pnach = "user"
    /\ installs = 1 =>
          /\ steps = InstallSteps => pnach = "user"
          /\ steps = <<"copy_payload", "enable_cheats">> => bak = "user"
          /\ pnach = "user" \/ bak = "user"
PlayersCheats ==
    files.had => CheatsAt(files.installs, installing, files.pnach, files.bak)

IInv == Types /\ PlayersCheats
-----------------------------------------------------------------------------
(* A step keeps the strengthening if it does so for the fields it is about. *)
LEMMA FieldsSuffice ==
    ASSUME IInv, DOMAIN files' = Fields, files'.had = files.had
    PROVE  IInv' <=>
           /\ files'.installs \in Nat
           /\ installing' \in Remaining
           /\ files.had => CheatsAt(files'.installs, installing', files'.pnach, files'.bak)
BY DEF IInv, Types, PlayersCheats

LEMMA IInvInit == Init => IInv
BY DEF Init, LinkInit, IInv, Types, Fields, Remaining, PlayersCheats, CheatsAt

(* The installer is started, given up, or makes its next step.             *)
LEMMA InstallerStep == IInv /\ Installer => IInv'
<1> SUFFICES ASSUME IInv, Installer PROVE IInv'
  OBVIOUS
<1>0. /\ DOMAIN files = Fields
      /\ files.installs \in Nat
      /\ installing \in Remaining
      /\ files.had => CheatsAt(files.installs, installing, files.pnach, files.bak)
  BY DEF IInv, Types, PlayersCheats
<1>1. CASE StartInstaller
  <2>1. /\ DOMAIN files' = Fields
        /\ files'.had = files.had /\ files'.installs = files.installs + 1
        /\ files'.pnach = files.pnach /\ files'.bak = files.bak
        /\ installing = <<>> /\ installing' = InstallSteps
    BY <1>0, <1>1 DEF StartInstaller, Fields
  <2> QED
    BY <1>0, <2>1, FieldsSuffice DEF CheatsAt, Remaining, InstallSteps
<1>2. CASE AbortInstaller
  <2>1. files' = files /\ installing' = <<>> /\ installing # <<>>
    BY <1>2 DEF AbortInstaller
  <2> QED
    BY <1>0, <2>1, FieldsSuffice DEF CheatsAt, Remaining, InstallSteps
<1>3. CASE InstallStep
  <2>0. /\ files' = Installed(files, Head(installing))
        /\ installing' = Tail(installing)
        /\ installing # <<>>
    BY <1>3 DEF InstallStep
  <2>1. CASE installing = InstallSteps
    <3>1. Head(installing) = "back_up" /\ installing' = <<"copy_payload", "enable_cheats">>
      BY <2>0, <2>1 DEF InstallSteps
    <3>2. /\ DOMAIN files' = Fields
          /\ files'.had = files.had /\ files'.installs = files.installs
          /\ files'.pnach = files.pnach
          /\ files.pnach # "none" => files'.bak = files.pnach
      BY <1>0, <2>0, <3>1 DEF Installed, BackUp, Fields
    <3> QED
      BY <1>0, <2>1, <3>1, <3>2, FieldsSuffice DEF CheatsAt, Remaining, InstallSteps
  <2>2. CASE installing = <<"copy_payload", "enable_cheats">>
    <3>1. Head(installing) = "copy_payload" /\ installing' = <<"enable_cheats">>
      BY <2>0, <2>2
    <3>2. /\ DOMAIN files' = Fields
          /\ files'.had = files.had /\ files'.installs = files.installs
          /\ files'.bak = files.bak
      BY <1>0, <2>0, <3>1 DEF Installed, Fields
    <3> QED
      BY <1>0, <2>2, <3>1, <3>2, FieldsSuffice DEF CheatsAt, Remaining, InstallSteps
  <2>3. CASE installing = <<"enable_cheats">>
    <3>1. Head(installing) = "enable_cheats" /\ installing' = <<>>
      BY <2>0, <2>3
    <3>2. /\ DOMAIN files' = Fields
          /\ files'.had = files.had /\ files'.installs = files.installs
          /\ files'.pnach = files.pnach /\ files'.bak = files.bak
      BY <1>0, <2>0, <3>1 DEF Installed, Fields
    <3> QED
      BY <1>0, <2>3, <3>1, <3>2, FieldsSuffice DEF CheatsAt, Remaining, InstallSteps
  <2> QED
    BY <1>0, <2>0, <2>1, <2>2, <2>3 DEF Remaining, InstallSteps
<1> QED
  BY <1>1, <1>2, <1>3 DEF Installer

(* The emulator counts its boots; nobody else changes the files.           *)
LEMMA OtherSteps ==
    [Next]_vars => \/ Installer
                   \/ files' = [files EXCEPT !.boots = @ + 1] /\ UNCHANGED installing
                   \/ UNCHANGED <<files, installing>>
BY DEF Next, vars, linkVars, Start, Read, Write, Release, Finish, Stop, Play,
       NewGame, Boot, Exit, Others, Execute

LEMMA IInvStep == IInv /\ [Next]_vars => IInv'
<1> SUFFICES ASSUME IInv, [Next]_vars PROVE IInv'
  OBVIOUS
<1>1. CASE Installer
  BY <1>1, InstallerStep
<1>2. CASE files' = [files EXCEPT !.boots = @ + 1] /\ UNCHANGED installing
  <2>1. /\ DOMAIN files' = Fields
        /\ files'.had = files.had /\ files'.installs = files.installs
        /\ files'.pnach = files.pnach /\ files'.bak = files.bak
    BY <1>2 DEF IInv, Types, Fields
  <2> QED
    BY <1>2, <2>1 DEF IInv, Types, PlayersCheats
<1>3. CASE UNCHANGED <<files, installing>>
  BY <1>3 DEF IInv, Types, PlayersCheats
<1> QED
  BY <1>1, <1>2, <1>3, OtherSteps

(* However often it fails, wherever it is given up and whatever runs beside *)
(* it: as long as the installer was started once, the player's own cheats  *)
(* are where they were or in its backup.                                   *)
THEOREM CheatsAreKeptTheorem == Spec => []CheatsAreKept
<1>1. IInv => CheatsAreKept
  BY DEF IInv, Types, PlayersCheats, CheatsAt, CheatsAreKept
<1> QED
  BY <1>1, IInvInit, IInvStep, PTL DEF Spec
-----------------------------------------------------------------------------
(* What is borrowed.  WordOf(t, i) is the word of a process's i-th write    *)
(* still to come.                                                          *)
Pulses == {"pulse", "test_flag", "pulse_value", "report"}
WordOf(t, i) == tool[t].todo[i][1]
ValueOf(t, i) == tool[t].todo[i][2]
ToWrite(t, w) == \E i \in 1..Len(tool[t].todo) : WordOf(t, i) = w
Given(t, w) == \E j \in 1..Len(tool[t].given) : tool[t].given[j] = w
ToolFields == {"kind", "pid", "mailbox", "todo", "kept", "read", "phase",
               "back", "given", "once"}
EmuFields == {"pid", "layout", "base", "marks", "payload", "protected"}

GameTypes ==
    /\ game \in [Words -> Nat] /\ image \in [Words -> Nat]
    /\ DOMAIN tool = Tools /\ DOMAIN found = Tools
    /\ DOMAIN alone = Tools /\ DOMAIN emu = EmuFields

ToolTypes(t) ==
    /\ DOMAIN tool[t] = ToolFields
    /\ tool[t].kind \in Kinds /\ tool[t].phase \in {"write", "back"}
    /\ tool[t].todo \in Seq(Words \X Nat) /\ tool[t].given \in Seq(Words)
    /\ tool[t].back => tool[t].kind \in Pulses
    /\ DOMAIN found[t] \subseteq Words
    /\ tool[t].kept \in [DOMAIN found[t] -> Nat]

\* Before its last write, a process that pulses reads each given word before
\* it writes to it,
Reading(t) ==
    /\ tool[t].read => tool[t].todo # <<>> /\ WordOf(t, 1) \in DOMAIN found[t]
    /\ \A w \in Words : Given(t, w) => w \in DOMAIN found[t] \/ ToWrite(t, w)

\* and reads it once.
ReadingOnce(t) ==
    tool[t].kind # "test_flag" =>
       /\ \A i \in 1..Len(tool[t].todo) :
             WordOf(t, i) \in DOMAIN found[t] => i = 1 /\ tool[t].read
       /\ \A i, j \in 1..Len(tool[t].todo) : WordOf(t, i) = WordOf(t, j) => i = j

\* After it, what is left to write is what was kept.
PuttingBack(t) ==
    \A i \in 1..Len(tool[t].todo) :
       /\ WordOf(t, i) \in DOMAIN found[t]
       /\ ValueOf(t, i) = tool[t].kept[WordOf(t, i)]

\* All it reads and writes are given words.
OnlyGiven(t) ==
    /\ \A w \in Words : ToWrite(t, w) => Given(t, w)
    /\ \A w \in DOMAIN found[t] : Given(t, w)

\* If nobody else wrote to a word it has read, it keeps what it found, or it
\* works on an image of the game and leaves the game alone; once it puts things
\* back, a word is as it was, or still to be put back.
Borrowed(t) ==
    alone[t] => \A w \in DOMAIN found[t] :
       /\ tool[t].pid = emu.pid
       /\ Area(t, w) = "ee" => tool[t].kept[w] = found[t][w]
       /\ Area(t, w) # "ee" => game[w] = found[t][w]
       /\ tool[t].phase = "back" => game[w] = found[t][w] \/ ToWrite(t, w)

PulseInv(t) ==
    /\ tool[t].phase = "write" => Reading(t)
    /\ tool[t].once =>
          /\ tool[t].phase = "write" => ReadingOnce(t)
          /\ tool[t].phase = "back" => PuttingBack(t)
          /\ OnlyGiven(t)
          /\ Borrowed(t)

ToolInv(t) ==
    /\ tool[t].kind = "none" => tool[t] = Done /\ DOMAIN found[t] = {}
    /\ tool[t].kind # "none" => ToolTypes(t) /\ (tool[t].back => PulseInv(t))

BorrowInv == GameTypes /\ \A t \in Tools : ToolInv(t)
-----------------------------------------------------------------------------
(* A process that nobody interferes with, or that is told so, is as before. *)
LEMMA LeftAlone ==
    ASSUME NEW t \in Tools, ToolInv(t),
           tool'[t] = tool[t], found'[t] = found[t],
           alone'[t] => alone[t],
           alone'[t] => \A w \in DOMAIN found[t] :
              /\ game'[w] = game[w]
              /\ emu'.pid = emu.pid /\ emu'.layout = emu.layout
    PROVE  ToolInv(t)'
<1>1. ToolTypes(t) => ToolTypes(t)'
  BY DEF ToolTypes
<1>2. \A w : (ToWrite(t, w)' <=> ToWrite(t, w)) /\ (Given(t, w)' <=> Given(t, w))
  BY DEF ToWrite, Given, WordOf
<1>3. Reading(t) => Reading(t)'
  BY <1>2 DEF Reading, WordOf
<1>4. /\ ReadingOnce(t) => ReadingOnce(t)'
      /\ PuttingBack(t) => PuttingBack(t)'
  BY DEF ReadingOnce, PuttingBack, WordOf, ValueOf
<1>5. OnlyGiven(t) => OnlyGiven(t)'
  BY <1>2 DEF OnlyGiven
<1>6. Borrowed(t) => Borrowed(t)'
  BY <1>2 DEF Borrowed, Area, Target
<1>7. PulseInv(t) => PulseInv(t)'
  BY <1>3, <1>4, <1>5, <1>6 DEF PulseInv
<1> QED
  BY <1>1, <1>7 DEF ToolInv

(* What a command writes to, it was given; a word of most, once.           *)
SoundCommand(kind, v, w, c, given) ==
    /\ c.writes \in Seq(Words \X Nat) /\ given \in Seq(Words)
    /\ c.back => kind \in Pulses
    /\ c.back =>
       /\ \A x : (\E j \in 1..Len(given) : given[j] = x) <=>
                    \E i \in 1..Len(c.writes) : c.writes[i][1] = x
       /\ (kind # "report" \/ v # w) /\ kind # "test_flag" =>
             \A i, j \in 1..Len(c.writes) : c.writes[i][1] = c.writes[j][1] => i = j

LEMMA CommandsAreSound ==
    ASSUME NEW kind \in Kinds, NEW v \in Words, NEW w \in Words,
           Sensible(kind, v, w)
    PROVE  SoundCommand(kind, v, w, Command(kind, v, w),
                        IF v = w THEN <<v>> ELSE <<v, w>>)
<1> DEFINE c == Command(kind, v, w)
           given == IF v = w THEN <<v>> ELSE <<v, w>>
<1> SUFFICES SoundCommand(kind, v, w, c, given)
  OBVIOUS
<1> USE DEF SoundCommand
<1>1. CASE kind \in {"pulse", "money", "write", "patch", "heartbeat"}
  <2>1. c.writes = <<<<v, 2>>>> /\ v = w /\ given = <<v>> /\ (c.back => kind = "pulse")
    BY <1>1 DEF Command, Sensible, Pulse, SetMoney, WriteWord, Patch, Heartbeat
  <2> QED
    BY <2>1, <1>1 DEF Pulses
<1>2. CASE kind = "test_flag"
  <2>1. c.writes = <<<<v, 1>>, <<v, 0>>>> /\ v = w /\ given = <<v>>
    BY <1>2 DEF Command, Sensible, TestFlag
  <2> QED
    BY <2>1, <1>2 DEF Pulses
<1>3. CASE kind \in {"pulse_value", "hexpatch"}
  <2>1. /\ c.writes = <<<<v, 2>>, <<w, 1>>>> /\ v # w /\ given = <<v, w>>
        /\ c.back => kind = "pulse_value"
    BY <1>3 DEF Command, Sensible, PulseValue, Hexpatch
  <2> QED
    BY <2>1, <1>3 DEF Pulses
<1>4. CASE kind = "set_value"
  <2>1. c.writes = <<<<v, 2>>, <<w, 2>>>> /\ v # w /\ given = <<v, w>> /\ ~c.back
    BY <1>4 DEF Command, Sensible, SetValue
  <2> QED
    BY <2>1, <1>4 DEF Pulses
<1>5. CASE kind = "report"
  <2>1. c.writes = [i \in DOMAIN <<v, w>> |-> <<<<v, w>>[i], 2>>]
    BY <1>5 DEF Command, PulseFromReport
  <2>2. c.writes = <<<<v, 2>>, <<w, 2>>>>
    BY <2>1
  <2>3. c.writes \in Seq(Words \X Nat) /\ given \in Seq(Words)
    BY <2>2
  <2>4. /\ Len(c.writes) = 2 /\ c.writes[1][1] = v /\ c.writes[2][1] = w
        /\ c.back => kind \in Pulses
    BY <1>5, <2>2 DEF Pulses
  <2>5. CASE v = w
    <3>1. Len(given) = 1 /\ given[1] = v
      BY <2>5
    <3>2. 1 \in 1..Len(given) /\ 1 \in 1..Len(c.writes)
      BY <2>4, <3>1
    <3>3. \A i \in 1..Len(c.writes) : c.writes[i][1] = v
      BY <2>5, <2>4
    <3>4. \A i \in 1..Len(given) : given[i] = v
      BY <3>1
    <3> QED
      BY <1>5, <2>3, <2>5, <2>4, <3>1, <3>2, <3>3, <3>4
  <2>6. CASE v # w
    <3>1. Len(given) = 2 /\ given[1] = v /\ given[2] = w
      BY <2>6
    <3> QED
      BY <2>3, <2>6, <2>4, <3>1
  <2> QED
    BY <2>5, <2>6
<1> QED
  BY <1>1, <1>2, <1>3, <1>4, <1>5 DEF Kinds
-----------------------------------------------------------------------------
(* The steps of a process, for that process.                               *)
LEMMA StartOwn ==
    ASSUME BorrowInv, NEW t \in Tools, Start(t)
    PROVE  ToolInv(t)'
<1>0. PICK s \in {BridgeScan, ExploreScan, InjectScan, ProbeScan} :
         \E kind \in Kinds, pair \in Pairs :
          LET v == pair[1]
              w == pair[2]
              c == Command(kind, v, w)
          IN
          /\ Sensible(kind, v, w) /\ c.scan = s
          /\ tool' = [tool EXCEPT ![t] =
                [kind |-> kind, pid |-> Link(s).pid, mailbox |-> Link(s).mailbox,
                 todo |-> c.writes, kept |-> <<>>, read |-> FALSE,
                 phase |-> "write", back |-> c.back, given |-> IF v = w THEN <<v>> ELSE <<v, w>>,
                 once |-> kind # "report" \/ v # w]]
  BY Zenon DEF Start
<1>1. PICK kind \in Kinds, pair \in Pairs :
          LET v == pair[1]
              w == pair[2]
              c == Command(kind, v, w)
          IN
          /\ Sensible(kind, v, w) /\ c.scan = s
          /\ tool' = [tool EXCEPT ![t] =
                [kind |-> kind, pid |-> Link(s).pid, mailbox |-> Link(s).mailbox,
                 todo |-> c.writes, kept |-> <<>>, read |-> FALSE,
                 phase |-> "write", back |-> c.back, given |-> IF v = w THEN <<v>> ELSE <<v, w>>,
                 once |-> kind # "report" \/ v # w]]
  BY <1>0
<1> DEFINE v == pair[1]
           w == pair[2]
           c == Command(kind, v, w)
           given == IF v = w THEN <<v>> ELSE <<v, w>>
<1>2. /\ kind \in Kinds /\ v \in Words /\ w \in Words /\ Sensible(kind, v, w)
      /\ c = Command(kind, v, w) /\ given = IF v = w THEN <<v>> ELSE <<v, w>>
  BY <1>1, ValuesAssumption
<1>4. /\ tool[t] = Done /\ found' = found /\ DOMAIN found[t] = {}
      /\ t \in DOMAIN tool
  BY DEF Start, BorrowInv, GameTypes, ToolInv, Done
<1>5. tool'[t] = [kind |-> kind, pid |-> Link(s).pid, mailbox |-> Link(s).mailbox,
                  todo |-> c.writes, kept |-> <<>>, read |-> FALSE,
                  phase |-> "write", back |-> c.back, given |-> given,
                  once |-> kind # "report" \/ v # w]
  BY <1>1, <1>4
<1> HIDE DEF v, w, c, given
<1>3. SoundCommand(kind, v, w, c, given)
  BY <1>2, CommandsAreSound
<1>6. /\ tool'[t].kind = kind /\ tool'[t].todo = c.writes /\ tool'[t].kept = <<>>
      /\ ~tool'[t].read /\ tool'[t].phase = "write" /\ tool'[t].back = c.back
      /\ tool'[t].given = given /\ tool'[t].once = (kind # "report" \/ v # w)
      /\ DOMAIN tool'[t] = ToolFields
  BY <1>5 DEF ToolFields
<1>7. kind # "none"
  BY DEF Kinds
<1>8. ToolTypes(t)'
  <2>1. <<>> \in [{} -> Nat]
    OBVIOUS
  <2> QED
    BY <1>3, <1>4, <1>6, <2>1 DEF ToolTypes, SoundCommand
<1>9. ASSUME c.back PROVE PulseInv(t)'
  <2>1. \A x \in Words : Given(t, x)' <=> ToWrite(t, x)'
    <3>1. \A x : Given(t, x)' <=> \E j \in 1..Len(given) : given[j] = x
      BY <1>6 DEF Given
    <3>2. \A x : ToWrite(t, x)' <=> \E i \in 1..Len(c.writes) : c.writes[i][1] = x
      BY <1>6 DEF ToWrite, WordOf
    <3> QED
      BY <1>3, <1>9, <3>1, <3>2 DEF SoundCommand
  <2>2. Reading(t)' /\ OnlyGiven(t)'
    BY <1>4, <1>6, <2>1 DEF Reading, OnlyGiven
  <2>3. ASSUME tool'[t].once PROVE ReadingOnce(t)'
    <3>1. kind # "test_flag" =>
             \A i, j \in 1..Len(c.writes) : c.writes[i][1] = c.writes[j][1] => i = j
      BY <1>3, <1>6, <1>9, <2>3 DEF SoundCommand
    <3> QED
      BY <1>4, <1>6, <3>1 DEF ReadingOnce, WordOf
  <2>4. Borrowed(t)'
    BY <1>4 DEF Borrowed
  <2> QED
    BY <1>6, <2>2, <2>3, <2>4 DEF PulseInv
<1> QED
  BY <1>6, <1>7, <1>8, <1>9 DEF ToolInv

LEMMA ReadOwn ==
    ASSUME BorrowInv, NEW t \in Tools, Read(t)
    PROVE  ToolInv(t)'
<1> DEFINE w == Head(tool[t].todo)[1]
           v == Kept(t, w)
           k == Noted(tool[t].kept, w, v)
           f == Noted(found[t], w, game[w])
<1>1. /\ tool[t].kind # "none" /\ tool[t].phase = "write" /\ tool[t].todo # <<>>
      /\ ~tool[t].read /\ ToolTypes(t)
      /\ tool[t].kind = "test_flag" => w \notin DOMAIN tool[t].kept
      /\ tool[t].pid = emu.pid
      /\ game' = game /\ emu' = emu /\ alone' = alone
      /\ tool' = [tool EXCEPT ![t].read = TRUE, ![t].kept = Noted(@, w, v)]
      /\ found' = [found EXCEPT ![t] = IF w \in DOMAIN @ THEN @ ELSE Noted(@, w, game[w])]
  BY DEF BorrowInv, ToolInv, Read, Reads, Alive, linkVars
<1>2. /\ Head(tool[t].todo) \in Words \X Nat /\ Head(tool[t].todo) = tool[t].todo[1]
      /\ Len(tool[t].todo) \in Nat \ {0}
  BY <1>1, HeadTailProperties, EmptySeq, LenProperties DEF ToolTypes
<1>3. w \in Words /\ w = WordOf(t, 1) /\ v \in Nat
  BY <1>2 DEF WordOf, Kept, ReadWord, BorrowInv, GameTypes
<1>4. /\ tool'[t] = [tool[t] EXCEPT !.read = TRUE, !.kept = k]
      /\ found'[t] = IF w \in DOMAIN found[t] THEN found[t] ELSE f
  BY <1>1 DEF BorrowInv, GameTypes
<1>k. /\ k = [x \in DOMAIN tool[t].kept \cup {w} |-> IF x = w THEN v ELSE tool[t].kept[x]]
      /\ f = [x \in DOMAIN found[t] \cup {w} |-> IF x = w THEN game[w] ELSE found[t][x]]
  BY DEF Noted
<1>v. v = IF Area(t, w) = "ee" THEN game[w] ELSE image[w]
  BY DEF Kept, ReadWord
<1> HIDE DEF w, v, k, f
<1>5. /\ tool'[t].kind = tool[t].kind /\ tool'[t].todo = tool[t].todo
      /\ tool'[t].phase = tool[t].phase /\ tool'[t].back = tool[t].back
      /\ tool'[t].given = tool[t].given /\ tool'[t].once = tool[t].once
      /\ tool'[t].pid = tool[t].pid /\ tool'[t].mailbox = tool[t].mailbox
      /\ tool'[t].read = TRUE /\ tool'[t].kept = k
      /\ DOMAIN tool'[t] = ToolFields
  <2>1. DOMAIN tool[t] = ToolFields
    BY <1>1 DEF ToolTypes
  <2> QED
    BY <1>4, <2>1 DEF ToolFields
<1>6. /\ DOMAIN found'[t] = DOMAIN found[t] \cup {w}
      /\ tool'[t].kept \in [DOMAIN found'[t] -> Nat]
      /\ tool'[t].kept[w] = v
      /\ \A x \in DOMAIN found[t] : x # w => tool'[t].kept[x] = tool[t].kept[x]
      /\ \A x \in DOMAIN found[t] : found'[t][x] = found[t][x]
      /\ w \notin DOMAIN found[t] => found'[t][w] = game[w]
  <2>1. tool[t].kept \in [DOMAIN found[t] -> Nat]
    BY <1>1 DEF ToolTypes
  <2>2. k \in [DOMAIN found[t] \cup {w} -> Nat] /\ k[w] = v
    BY <1>3, <1>k, <2>1
  <2>3. \A x \in DOMAIN found[t] : x # w => k[x] = tool[t].kept[x]
    BY <1>k, <2>1
  <2>4. DOMAIN found'[t] = DOMAIN found[t] \cup {w}
    BY <1>4, <1>k
  <2>5. /\ \A x \in DOMAIN found[t] : found'[t][x] = found[t][x]
        /\ w \notin DOMAIN found[t] => found'[t][w] = game[w]
    BY <1>4, <1>k
  <2> QED
    BY <1>5, <2>2, <2>3, <2>4, <2>5
<1>7. ToolTypes(t)'
  BY <1>1, <1>3, <1>5, <1>6 DEF ToolTypes
<1>8. ASSUME tool[t].back PROVE PulseInv(t)'
  <2>1. /\ \A x \in Words : (Given(t, x)' <=> Given(t, x)) /\ (ToWrite(t, x)' <=> ToWrite(t, x))
        /\ \A i : WordOf(t, i)' = WordOf(t, i)
    BY <1>5 DEF Given, ToWrite, WordOf
  <2>2. PulseInv(t)
    BY <1>1, <1>8 DEF BorrowInv, ToolInv
  <2>3. Reading(t)'
    BY <1>1, <1>3, <1>5, <1>6, <2>1, <2>2 DEF PulseInv, Reading
  <2>4. ASSUME tool[t].once PROVE ReadingOnce(t)' /\ OnlyGiven(t)' /\ Borrowed(t)'
    <3>1. ReadingOnce(t) /\ OnlyGiven(t) /\ Borrowed(t)
      BY <1>1, <2>2, <2>4 DEF PulseInv
    <3>2. w \notin DOMAIN found[t]
      <4>1. 1 \in 1..Len(tool[t].todo)
        BY <1>2
      <4> QED
        BY <1>1, <1>3, <3>1, <4>1 DEF ReadingOnce, ToolTypes
    <3>3. ReadingOnce(t)'
      <4>1. 1 \in 1..Len(tool[t].todo)
        BY <1>2
      <4> QED
        <5>1. SUFFICES ASSUME tool[t].kind # "test_flag"
                       PROVE  /\ \A i \in 1..Len(tool[t].todo) :
                                   WordOf(t, i) \in DOMAIN found'[t] => i = 1
                              /\ \A i, j \in 1..Len(tool[t].todo) :
                                   WordOf(t, i) = WordOf(t, j) => i = j
          BY <1>5, <2>1 DEF ReadingOnce
        <5> QED
          BY <1>1, <1>3, <1>6, <3>1, <4>1, <5>1 DEF ReadingOnce
    <3>4. OnlyGiven(t)'
      <4>1. ToWrite(t, w)
        BY <1>2, <1>3 DEF ToWrite
      <4> QED
        BY <1>1, <1>3, <1>6, <2>1, <3>1, <4>1 DEF OnlyGiven, ToolTypes
    <3>5. Borrowed(t)'
      <4>1. \A x : Area(t, x)' = Area(t, x)
        BY <1>1, <1>5 DEF Area, Target
      <4> QED
        <5>1. SUFFICES ASSUME alone[t], NEW x \in DOMAIN found'[t]
                       PROVE  /\ tool[t].pid = emu.pid
                              /\ Area(t, x) = "ee" => tool'[t].kept[x] = found'[t][x]
                              /\ Area(t, x) # "ee" => game[x] = found'[t][x]
          BY <1>1, <1>5, <4>1 DEF Borrowed
        <5>2. CASE x = w
          BY <1>1, <1>6, <1>v, <3>2, <5>2
        <5>3. CASE x # w
          BY <1>1, <1>6, <3>1, <5>1, <5>3 DEF Borrowed
        <5> QED
          BY <5>2, <5>3
    <3> QED
      BY <3>3, <3>4, <3>5
  <2> QED
    BY <1>1, <1>5, <2>3, <2>4 DEF PulseInv
<1> QED
  BY <1>1, <1>5, <1>7, <1>8 DEF ToolInv

LEMMA WriteOwn ==
    ASSUME BorrowInv, NEW t \in Tools, Write(t)
    PROVE  ToolInv(t)'
<1> DEFINE w == Head(tool[t].todo)[1]
           v == Head(tool[t].todo)[2]
           n == Len(tool[t].todo)
           rest == Tail(tool[t].todo)
<1>1. /\ tool[t].kind # "none" /\ tool[t].todo # <<>> /\ ~Reads(t)
      /\ Put(t, w, v) /\ ToolTypes(t)
      /\ emu' = emu /\ found' = found
      /\ tool' = [tool EXCEPT ![t].todo = rest, ![t].read = FALSE]
  BY DEF BorrowInv, ToolInv, Write, linkVars
<1>2. /\ rest \in Seq(Words \X Nat) /\ Len(rest) = n - 1 /\ n \in Nat \ {0}
      /\ \A i \in 1..(n - 1) : rest[i] = tool[t].todo[i + 1]
      /\ Head(tool[t].todo) \in Words \X Nat /\ Head(tool[t].todo) = tool[t].todo[1]
  BY <1>1, HeadTailProperties, EmptySeq, LenProperties DEF ToolTypes
<1>3. /\ w = WordOf(t, 1) /\ v = ValueOf(t, 1) /\ w \in Words /\ v \in Nat
  BY <1>2 DEF WordOf, ValueOf
<1>4. tool'[t] = [tool[t] EXCEPT !.todo = rest, !.read = FALSE]
  BY <1>1 DEF BorrowInv, GameTypes
<1> HIDE DEF w, v, rest
<1>5. /\ tool'[t].kind = tool[t].kind /\ tool'[t].todo = rest
      /\ tool'[t].phase = tool[t].phase /\ tool'[t].back = tool[t].back
      /\ tool'[t].given = tool[t].given /\ tool'[t].once = tool[t].once
      /\ tool'[t].pid = tool[t].pid /\ tool'[t].mailbox = tool[t].mailbox
      /\ tool'[t].read = FALSE /\ tool'[t].kept = tool[t].kept
      /\ DOMAIN tool'[t] = ToolFields
  <2>1. DOMAIN tool[t] = ToolFields
    BY <1>1 DEF ToolTypes
  <2> QED
    BY <1>4, <2>1 DEF ToolFields
<1>6. ToolTypes(t)'
  BY <1>1, <1>2, <1>5 DEF ToolTypes
<1>7. ASSUME tool[t].back PROVE PulseInv(t)'
  <2>1. /\ \A x \in Words : Given(t, x)' <=> Given(t, x)
        /\ \A i \in 1..(n - 1) : /\ WordOf(t, i)' = WordOf(t, i + 1)
                                 /\ ValueOf(t, i)' = ValueOf(t, i + 1)
        /\ Len(tool'[t].todo) = n - 1
    BY <1>2, <1>5 DEF Given, WordOf, ValueOf
  <2>2. \A x \in Words : ToWrite(t, x) <=> x = w \/ ToWrite(t, x)'
    <3>1. \A x \in Words : ToWrite(t, x)' <=> \E i \in 1..(n - 1) : WordOf(t, i + 1) = x
      BY <2>1 DEF ToWrite
    <3>2. \A x \in Words : ToWrite(t, x) <=> \E i \in 1..n : WordOf(t, i) = x
      BY DEF ToWrite
    <3>3. \A i \in 1..n : i = 1 \/ (i - 1 \in 1..(n - 1) /\ (i - 1) + 1 = i)
      BY <1>2
    <3>4. 1 \in 1..n /\ \A i \in 1..(n - 1) : i + 1 \in 1..n
      BY <1>2
    <3> QED
      BY <1>3, <3>1, <3>2, <3>3, <3>4
  <2>3. PulseInv(t) /\ tool[t].kind \in Pulses /\ DOMAIN tool[t].kept = DOMAIN found[t]
        /\ DOMAIN found[t] \subseteq Words
    BY <1>1, <1>7 DEF BorrowInv, ToolInv, ToolTypes
  <2>4. ASSUME tool[t].phase = "write" PROVE Reading(t)'
    <3>1. Reading(t)
      BY <2>3, <2>4 DEF PulseInv
    <3>2. w \in DOMAIN found[t]
      <4>1. tool[t].read \/ (tool[t].kind = "test_flag" /\ Head(tool[t].todo)[1] \in DOMAIN tool[t].kept)
        BY <1>1, <2>3, <2>4 DEF Reads, Pulses
      <4>2. CASE tool[t].read
        BY <1>3, <3>1, <4>2 DEF Reading
      <4>3. CASE Head(tool[t].todo)[1] \in DOMAIN tool[t].kept
        BY <2>3, <4>3 DEF w
      <4> QED
        BY <4>1, <4>2, <4>3
    <3> QED
      BY <1>1, <1>5, <2>1, <2>2, <3>1, <3>2 DEF Reading
  <2>5. ASSUME tool[t].once PROVE OnlyGiven(t)' /\ Borrowed(t)'
    <3>1. OnlyGiven(t) /\ Borrowed(t)
      BY <2>3, <2>5 DEF PulseInv
    <3>2. OnlyGiven(t)'
      BY <1>1, <2>1, <2>2, <2>3, <3>1 DEF OnlyGiven
    <3>3. Land(t, w, v)
      <4>1. Outcome(t, w) = BridgeWrite(t, w)
        BY <2>3 DEF Outcome, Pulses
      <4> QED
        BY <1>1, <4>1 DEF Put, BridgeWrite
    <3>4. \A x : Area(t, x)' = Area(t, x)
      BY <1>1, <1>5 DEF Area, Target
    <3>5. /\ alone'[t] => alone[t]
          /\ \A x \in Words : x # w => game'[x] = game[x]
          /\ Area(t, w) = "ee" => game'[w] = v
          /\ Area(t, w) # "ee" => game'[w] = game[w]
      BY <1>3, <3>3 DEF Land, Seen, BorrowInv, GameTypes
    <3>6. ASSUME tool[t].phase = "back", w \in DOMAIN found[t]
          PROVE  v = tool[t].kept[w]
      <4>1. PuttingBack(t)
        BY <2>3, <2>5, <3>6 DEF PulseInv
      <4> QED
        BY <1>2, <1>3, <4>1 DEF PuttingBack
    <3>7. SUFFICES ASSUME alone[t], NEW x \in DOMAIN found[t]
                   PROVE  /\ tool[t].pid = emu.pid
                          /\ Area(t, x) = "ee" => tool[t].kept[x] = found[t][x]
                          /\ Area(t, x) # "ee" => game'[x] = found[t][x]
                          /\ tool[t].phase = "back" => game'[x] = found[t][x] \/ ToWrite(t, x)'
      BY <1>1, <1>5, <3>2, <3>4, <3>5 DEF Borrowed
    <3>8. /\ tool[t].pid = emu.pid
          /\ Area(t, x) = "ee" => tool[t].kept[x] = found[t][x]
          /\ Area(t, x) # "ee" => game[x] = found[t][x]
          /\ tool[t].phase = "back" => game[x] = found[t][x] \/ ToWrite(t, x)
          /\ x \in Words
      BY <2>3, <3>1, <3>7 DEF Borrowed
    <3>9. CASE x = w
      BY <3>5, <3>6, <3>8, <3>9
    <3>10. CASE x # w
      BY <2>2, <3>5, <3>8, <3>10
    <3> QED
      BY <3>9, <3>10
  <2>6. ASSUME tool[t].once, tool[t].phase = "write" PROVE ReadingOnce(t)'
    <3>1. ReadingOnce(t)
      BY <2>3, <2>6 DEF PulseInv
    <3>2. SUFFICES ASSUME tool[t].kind # "test_flag"
                   PROVE  /\ \A i \in 1..(n - 1) : WordOf(t, i)' \notin DOMAIN found[t]
                          /\ \A i, j \in 1..(n - 1) : WordOf(t, i)' = WordOf(t, j)' => i = j
      BY <1>1, <1>5, <2>1 DEF ReadingOnce
    <3>3. \A i \in 1..(n - 1) : i + 1 \in 1..n /\ i + 1 # 1
      BY <1>2
    <3>4. /\ \A i \in 1..n : WordOf(t, i) \in DOMAIN found[t] => i = 1
          /\ \A i, j \in 1..n : WordOf(t, i) = WordOf(t, j) => i = j
      BY <3>1, <3>2 DEF ReadingOnce
    <3> QED
      BY <1>2, <2>1, <3>3, <3>4
  <2>7. ASSUME tool[t].once, tool[t].phase = "back" PROVE PuttingBack(t)'
    <3>1. PuttingBack(t)
      BY <2>3, <2>7 DEF PulseInv
    <3>2. \A i \in 1..(n - 1) : i + 1 \in 1..n
      BY <1>2
    <3> QED
      BY <1>1, <1>5, <2>1, <3>1, <3>2 DEF PuttingBack
  <2> QED
    BY <1>5, <2>4, <2>5, <2>6, <2>7 DEF PulseInv
<1> QED
  BY <1>1, <1>5, <1>6, <1>7 DEF ToolInv

LEMMA ReleaseOwn ==
    ASSUME BorrowInv, NEW t \in Tools, Release(t)
    PROVE  ToolInv(t)'
<1> DEFINE r == Return(t)
           m == Len(tool[t].given)
<1>1. /\ tool[t].kind # "none" /\ tool[t].phase = "write" /\ tool[t].todo = <<>>
      /\ tool[t].back /\ ToolTypes(t) /\ PulseInv(t) /\ Reading(t)
      /\ emu' = emu /\ found' = found /\ game' = game /\ alone' = alone
      /\ tool' = [tool EXCEPT ![t].phase = "back", ![t].todo = r]
  BY DEF BorrowInv, ToolInv, Release, linkVars, PulseInv
<1>2. tool'[t] = [tool[t] EXCEPT !.phase = "back", !.todo = r]
  BY <1>1 DEF BorrowInv, GameTypes
<1>3. r = [i \in 1..m |-> <<tool[t].given[i], tool[t].kept[tool[t].given[i]]>>]
  BY <1>1, LenProperties DEF Return, ToolTypes
<1>4. \A i \in 1..m : tool[t].given[i] \in DOMAIN found[t]
  <2>1. \A i \in 1..m : tool[t].given[i] \in Words /\ Given(t, tool[t].given[i])
    BY <1>1, ElementOfSeq DEF ToolTypes, Given
  <2>2. \A x : ~ToWrite(t, x)
    BY <1>1, EmptySeq DEF ToWrite
  <2> QED
    BY <1>1, <2>1, <2>2 DEF Reading
<1>5. m \in Nat
  BY <1>1, LenProperties DEF ToolTypes
<1> HIDE DEF r, m
<1>6. /\ tool'[t].kind = tool[t].kind /\ tool'[t].todo = r
      /\ tool'[t].phase = "back" /\ tool'[t].back = tool[t].back
      /\ tool'[t].given = tool[t].given /\ tool'[t].once = tool[t].once
      /\ tool'[t].pid = tool[t].pid /\ tool'[t].mailbox = tool[t].mailbox
      /\ tool'[t].read = tool[t].read /\ tool'[t].kept = tool[t].kept
      /\ DOMAIN tool'[t] = ToolFields
  <2>1. DOMAIN tool[t] = ToolFields
    BY <1>1 DEF ToolTypes
  <2> QED
    BY <1>2, <2>1 DEF ToolFields
<1>7. r \in Seq(Words \X Nat) /\ Len(r) = m
  <2>1. \A i \in 1..m : <<tool[t].given[i], tool[t].kept[tool[t].given[i]]>> \in Words \X Nat
    BY <1>1, <1>4 DEF ToolTypes
  <2>2. r \in [1..m -> Words \X Nat]
    BY <1>3, <2>1
  <2>3. r \in Seq(Words \X Nat)
    BY <1>5, <2>2, SeqDef
  <2> QED
    BY <1>5, <2>2, <2>3
<1>8. ToolTypes(t)'
  BY <1>1, <1>6, <1>7 DEF ToolTypes
<1>9. \A i \in 1..m : WordOf(t, i)' = tool[t].given[i]
                      /\ ValueOf(t, i)' = tool[t].kept[tool[t].given[i]]
  BY <1>3, <1>6 DEF WordOf, ValueOf
<1>10. \A x \in Words : (Given(t, x)' <=> Given(t, x)) /\ (ToWrite(t, x)' <=> Given(t, x))
  BY <1>6, <1>7, <1>9 DEF Given, ToWrite, m
<1>11. ASSUME tool[t].once PROVE PuttingBack(t)' /\ OnlyGiven(t)' /\ Borrowed(t)'
  <2>1. OnlyGiven(t) /\ Borrowed(t) /\ DOMAIN found[t] \subseteq Words
    BY <1>1, <1>11 DEF PulseInv, ToolTypes
  <2>2. PuttingBack(t)'
    BY <1>1, <1>4, <1>6, <1>7, <1>9 DEF PuttingBack
  <2>3. OnlyGiven(t)'
    BY <1>1, <1>10, <2>1 DEF OnlyGiven
  <2>4. \A x : Area(t, x)' = Area(t, x)
    BY <1>1, <1>6 DEF Area, Target
  <2>5. Borrowed(t)'
    BY <1>1, <1>6, <1>10, <2>1, <2>4 DEF Borrowed, OnlyGiven
  <2> QED
    BY <2>2, <2>3, <2>5
<1>12. PulseInv(t)'
  BY <1>6, <1>11 DEF PulseInv
<1> QED
  BY <1>1, <1>6, <1>8, <1>12 DEF ToolInv

LEMMA EndsOwn ==
    ASSUME BorrowInv, NEW t \in Tools, Ends(t)
    PROVE  ToolInv(t)'
<1>1. tool'[t] = Done /\ found'[t] = <<>>
  BY DEF Ends, BorrowInv, GameTypes
<1>2. DOMAIN <<>> = {}
  OBVIOUS
<1> QED
  BY <1>1, <1>2 DEF ToolInv, Done
-----------------------------------------------------------------------------
(* A write by somebody else tells those that have read the word.           *)
LEMMA OthersAreTold ==
    ASSUME BorrowInv, NEW t \in Tools, NEW self, t # self, NEW w \in Words,
           \/ alone' = Seen(w, self) /\ \E v : game' = [game EXCEPT ![w] = v]
           \/ UNCHANGED <<game, alone>>,
           tool'[t] = tool[t], found'[t] = found[t], emu' = emu
    PROVE  ToolInv(t)'
<1>1. alone'[t] => alone[t] /\ \A x \in DOMAIN found[t] : game'[x] = game[x]
  <2>1. CASE alone' = Seen(w, self) /\ \E v : game' = [game EXCEPT ![w] = v]
    <3>1. alone'[t] => alone[t] /\ w \notin DOMAIN found[t]
      BY <2>1 DEF Seen
    <3>2. \A x \in DOMAIN found[t] : x \in Words
      BY DEF BorrowInv, ToolInv, ToolTypes
    <3>3. \A x \in Words : x # w => game'[x] = game[x]
      BY <2>1 DEF BorrowInv, GameTypes
    <3> QED
      BY <3>1, <3>2, <3>3
  <2> QED
    BY <2>1
<1> QED
  BY <1>1, LeftAlone DEF BorrowInv

(* The words, and which processes there are.                               *)
LEMMA WordsStep == BorrowInv /\ [Next]_vars => GameTypes'
<1> SUFFICES ASSUME BorrowInv, [Next]_vars PROVE GameTypes'
  OBVIOUS
<1>0. GameTypes
  BY DEF BorrowInv
<1>1. ASSUME NEW t \in Tools, Start(t) \/ Read(t) \/ Release(t) \/ Finish(t) \/ Stop(t)
      PROVE  GameTypes'
  <2>1. game' = game /\ image' = image /\ emu' = emu
    BY <1>1 DEF Start, Read, Release, Finish, Stop, linkVars
  <2>2. DOMAIN tool' = Tools /\ DOMAIN found' = Tools /\ DOMAIN alone' = Tools
    BY <1>0, <1>1 DEF GameTypes, Start, Read, Release, Finish, Stop, Ends
  <2> QED
    BY <1>0, <2>1, <2>2 DEF GameTypes
<1>2. ASSUME NEW t \in Tools, Write(t)
      PROVE  GameTypes'
  <2> DEFINE w == Head(tool[t].todo)[1]
             v == Head(tool[t].todo)[2]
  <2>1. w \in Words /\ v \in Nat
    <3>1. tool[t].todo \in Seq(Words \X Nat) /\ tool[t].todo # <<>>
      BY <1>2 DEF Write, BorrowInv, ToolInv, ToolTypes
    <3> QED
      BY <3>1, HeadTailProperties
  <2>2. /\ Put(t, w, v) /\ emu' = emu /\ found' = found
        /\ DOMAIN tool' = Tools
    BY <1>0, <1>2 DEF Write, linkVars, GameTypes
  <2> HIDE DEF w, v
  <2>3. /\ game' \in [Words -> Nat] /\ image' \in [Words -> Nat]
        /\ DOMAIN alone' = Tools
    BY <1>0, <2>1, <2>2 DEF Put, Land, Seen, GameTypes
  <2> QED
    BY <1>0, <2>2, <2>3 DEF GameTypes
<1>3. ASSUME NEW w \in Words, NEW v \in GameValues, Play(w, v)
      PROVE  GameTypes'
  <2>1. v \in Nat
    BY ValuesAssumption
  <2> QED
    BY <1>0, <1>3, <2>1 DEF GameTypes, Play, Seen, linkVars
<1>4. CASE NewGame
  <2>1. DOMAIN emu' = EmuFields
    BY <1>4 DEF NewGame, Boot, Exit, Off, EmuFields
  <2> QED
    BY <1>0, <1>4, <2>1 DEF GameTypes, NewGame
<1>5. CASE Others
  <2>1. DOMAIN emu' = EmuFields
    BY <1>0, <1>5 DEF GameTypes, Others, Installer, StartInstaller, AbortInstaller,
                     InstallStep, Execute
  <2> QED
    BY <1>0, <1>5, <2>1 DEF GameTypes, Others, borrowVars
<1>6. CASE UNCHANGED vars
  BY <1>0, <1>6 DEF GameTypes, vars, linkVars, borrowVars
<1> QED
  BY <1>1, <1>2, <1>3, <1>4, <1>5, <1>6 DEF Next

LEMMA ToolsStep ==
    ASSUME BorrowInv, [Next]_vars, NEW u \in Tools
    PROVE  ToolInv(u)'
<1>0. GameTypes /\ ToolInv(u)
  BY DEF BorrowInv
<1>1. ASSUME NEW t \in Tools, Start(t) \/ Read(t) \/ Release(t) \/ Finish(t) \/ Stop(t)
      PROVE  ToolInv(u)'
  <2>1. CASE u = t
    BY <1>1, <2>1, StartOwn, ReadOwn, ReleaseOwn, EndsOwn DEF Finish, Stop
  <2>2. CASE u # t
    <3>1. game' = game /\ emu' = emu
      BY <1>1 DEF Start, Read, Release, Finish, Stop, linkVars
    <3>2. tool'[u] = tool[u] /\ found'[u] = found[u] /\ alone'[u] = alone[u]
      BY <1>0, <1>1, <2>2 DEF GameTypes, Start, Read, Release, Finish, Stop, Ends
    <3> QED
      BY <1>0, <3>1, <3>2, LeftAlone
  <2> QED
    BY <2>1, <2>2
<1>2. ASSUME NEW t \in Tools, Write(t)
      PROVE  ToolInv(u)'
  <2>1. CASE u = t
    BY <1>2, <2>1, WriteOwn
  <2>2. CASE u # t
    <3> DEFINE w == Head(tool[t].todo)[1]
               v == Head(tool[t].todo)[2]
    <3>1. w \in Words
      <4>1. tool[t].todo \in Seq(Words \X Nat) /\ tool[t].todo # <<>>
        BY <1>2 DEF Write, BorrowInv, ToolInv, ToolTypes
      <4> QED
        BY <4>1, HeadTailProperties
    <3>2. Put(t, w, v) /\ emu' = emu /\ tool'[u] = tool[u] /\ found'[u] = found[u]
      BY <1>0, <1>2, <2>2 DEF Write, GameTypes, linkVars
    <3> HIDE DEF w, v
    <3>3. \/ alone' = Seen(w, t) /\ \E x : game' = [game EXCEPT ![w] = x]
          \/ UNCHANGED <<game, alone>>
      BY <3>2 DEF Put, Land
    <3> QED
      BY <2>2, <3>1, <3>2, <3>3, OthersAreTold
  <2> QED
    BY <2>1, <2>2
<1>3. ASSUME NEW w \in Words, NEW v \in GameValues, Play(w, v)
      PROVE  ToolInv(u)'
  <2>1. u # "game"
    BY ToolsAssumption
  <2>2. /\ alone' = Seen(w, "game") /\ game' = [game EXCEPT ![w] = v]
        /\ tool' = tool /\ found' = found /\ emu' = emu
    BY <1>3 DEF Play, linkVars
  <2> QED
    BY <2>1, <2>2, OthersAreTold
<1>4. CASE NewGame
  <2>1. tool' = tool /\ found' = found /\ alone'[u] = (found[u] = <<>>)
    BY <1>4 DEF NewGame
  <2>2. ToolInv(u)'
    <3>1. /\ \A w : (ToWrite(u, w)' <=> ToWrite(u, w)) /\ (Given(u, w)' <=> Given(u, w))
          /\ \A i : WordOf(u, i)' = WordOf(u, i) /\ ValueOf(u, i)' = ValueOf(u, i)
      BY <2>1 DEF ToWrite, Given, WordOf, ValueOf
    <3>2. /\ ToolTypes(u) => ToolTypes(u)'
          /\ Reading(u) => Reading(u)'
          /\ ReadingOnce(u) => ReadingOnce(u)'
          /\ PuttingBack(u) => PuttingBack(u)'
          /\ OnlyGiven(u) => OnlyGiven(u)'
      BY <2>1, <3>1 DEF ToolTypes, Reading, ReadingOnce, PuttingBack, OnlyGiven
    <3>3. Borrowed(u)'
      <4>1. DOMAIN <<>> = {}
        OBVIOUS
      <4> QED
        BY <2>1, <4>1 DEF Borrowed
    <3> QED
      BY <1>0, <2>1, <3>2, <3>3 DEF ToolInv, PulseInv
  <2> QED
    BY <2>2
<1>5. CASE Others
  <2>1. /\ tool' = tool /\ found' = found /\ alone' = alone /\ game' = game
        /\ emu'.pid = emu.pid /\ emu'.layout = emu.layout
    BY <1>0, <1>5 DEF GameTypes, EmuFields, Others, borrowVars, Installer, StartInstaller,
                     AbortInstaller, InstallStep, Execute
  <2> QED
    BY <1>0, <2>1, LeftAlone
<1>6. CASE UNCHANGED vars
  BY <1>0, <1>6, LeftAlone DEF vars, linkVars, borrowVars
<1> QED
  BY <1>1, <1>2, <1>3, <1>4, <1>5, <1>6 DEF Next

LEMMA BorrowInit == Init => BorrowInv
<1> SUFFICES ASSUME Init PROVE BorrowInv
  OBVIOUS
<1>1. DOMAIN emu = EmuFields
  BY DEF Init, LinkInit, Off, EmuFields
<1>2. DOMAIN <<>> = {}
  OBVIOUS
<1>3. \A t \in Tools : tool[t] = Done /\ DOMAIN found[t] = {}
  BY <1>2 DEF Init
<1>4. GameTypes
  BY <1>1 DEF Init, GameTypes
<1> QED
  BY <1>3, <1>4 DEF BorrowInv, ToolInv, Done

LEMMA BorrowStep == BorrowInv /\ [Next]_vars => BorrowInv'
BY WordsStep, ToolsStep DEF BorrowInv

(* Whatever the memory of the emulator looks like, however many tools there *)
(* are and whatever their words are: a pulse that comes to its end leaves  *)
(* each word it touched as it found it, unless somebody else wrote to it   *)
(* or the same address was given twice.                                    *)
THEOREM BorrowedIsReturnedTheorem == Spec => BorrowedIsReturned
<1> DEFINE Returned == \A t \in Tools :
              (Finish(t) /\ tool[t].back /\ alone[t] /\ tool[t].once) =>
                 \A w \in DOMAIN found[t] : game[w] = found[t][w]
<1>1. ASSUME BorrowInv, NEW t \in Tools,
             Finish(t), tool[t].back, alone[t], tool[t].once, NEW w \in DOMAIN found[t]
      PROVE  game[w] = found[t][w]
  <2>1. tool[t].kind # "none" /\ tool[t].todo = <<>> /\ tool[t].phase = "back"
    BY <1>1 DEF Finish, Finished
  <2>2. Borrowed(t)
    BY <1>1, <2>1 DEF BorrowInv, ToolInv, PulseInv
  <2>3. ~ToWrite(t, w)
    BY <2>1, EmptySeq DEF ToWrite
  <2> QED
    BY <1>1, <2>1, <2>2, <2>3 DEF Borrowed
<1>2. BorrowInv => Returned
  BY <1>1
<1>3. BorrowInv /\ [Next]_vars => [Returned]_vars
  BY <1>2
<1> QED
  BY <1>3, BorrowInit, BorrowStep, PTL DEF Spec, BorrowedIsReturned
-----------------------------------------------------------------------------
(* What the installer makes of PCSX2.ini.  A line more does not change what *)
(* the lines before it are in.                                             *)
InCore(lines) == SectionOf(lines, Len(lines)) = Core

LEMMA LineAfter ==
    ASSUME NEW S, NEW lines \in Seq(S), NEW line \in S,
           NEW more, more = Append(lines, line)
    PROVE  /\ more \in Seq(S)
           /\ CheatsOn(lines) => CheatsOn(more)
           /\ InCore(more) <=> IF Header(line) THEN line = Core ELSE InCore(lines)
           /\ InCore(lines) /\ line = Setting => CheatsOn(more)
<1>0. PICK n \in Nat : n = Len(lines)
  OBVIOUS
<1> DEFINE Headers(l, i) == {j \in 1..i : Header(l[j])}
<1>1. /\ more \in Seq(S) /\ Len(more) = n + 1 /\ more[n + 1] = line
      /\ \A i \in 1..n : more[i] = lines[i]
  BY <1>0, AppendProperties
<1>8. DOMAIN lines = 1..n /\ DOMAIN more = 1..(n + 1) /\ 1..n \subseteq 1..(n + 1)
      /\ n + 1 \in 1..(n + 1) /\ n + 1 \in Nat
  BY <1>0, <1>1
<1>2. ASSUME NEW i \in Nat, i <= n PROVE SectionOf(more, i) = SectionOf(lines, i)
  <2>1. \A j \in 1..i : more[j] = lines[j] /\ j \in 1..n
    BY <1>1, <1>2
  <2>2. Headers(more, i) = Headers(lines, i)
    BY <2>1
  <2>3. Headers(more, i) # {} => Max(Headers(more, i)) \in 1..n
    <3> SUFFICES ASSUME Headers(more, i) # {} PROVE Max(Headers(more, i)) \in 1..n
      OBVIOUS
    <3>1. Headers(more, i) \in SUBSET (1..i) /\ IsFiniteSet(1..i)
      BY FS_Interval
    <3> HIDE DEF Headers
    <3>2. IsFiniteSet(Headers(more, i)) /\ Headers(more, i) \in SUBSET Nat
      BY <3>1, FS_Subset
    <3>3. Max(Headers(more, i)) \in Headers(more, i)
      BY <3>2, LeastAndGreatest
    <3> QED
      BY <2>1, <3>1, <3>3
  <2>4. Headers(more, i) # {} =>
           more[Max(Headers(more, i))] = lines[Max(Headers(more, i))]
    BY <1>1, <2>3
  <2>5. SectionOf(more, i) = IF Headers(more, i) = {} THEN "none" ELSE more[Max(Headers(more, i))]
    BY DEF SectionOf
  <2>6. SectionOf(lines, i) = IF Headers(lines, i) = {} THEN "none" ELSE lines[Max(Headers(lines, i))]
    BY DEF SectionOf
  <2> HIDE DEF Headers
  <2> QED
    BY <2>2, <2>4, <2>5, <2>6
<1>3. CheatsOn(lines) => CheatsOn(more)
  <2> SUFFICES ASSUME CheatsOn(lines) PROVE CheatsOn(more)
    OBVIOUS
  <2>1. PICK i \in 1..n : lines[i] = Setting /\ SectionOf(lines, i) = Core
    BY <1>8 DEF CheatsOn
  <2>2. more[i] = Setting /\ SectionOf(more, i) = Core /\ i \in DOMAIN more
    BY <1>1, <1>8, <1>2, <2>1
  <2> QED
    BY <2>2 DEF CheatsOn
<1>4. ASSUME ~Header(line) PROVE SectionOf(more, n + 1) = SectionOf(lines, n)
  <2>1. \A j \in 1..(n + 1) : j = n + 1 \/ j \in 1..n
    OBVIOUS
  <2>2. Headers(more, n + 1) = Headers(more, n)
    BY <1>1, <1>8, <1>4, <2>1
  <2>3. SectionOf(more, n + 1) = SectionOf(more, n)
    BY <2>2 DEF SectionOf
  <2> QED
    BY <1>2, <2>3
<1>5. ASSUME Header(line) PROVE SectionOf(more, n + 1) = line
  <2> DEFINE H == Headers(more, n + 1)
  <2>1. n + 1 \in H /\ H \in SUBSET Nat /\ H \in SUBSET (1..(n + 1))
    BY <1>1, <1>8, <1>5
  <2>2. SectionOf(more, n + 1) = IF H = {} THEN "none" ELSE more[Max(H)]
    BY DEF SectionOf
  <2> HIDE DEF H
  <2>3. IsFiniteSet(H)
    <3>1. 1 \in Int /\ n + 1 \in Int
      OBVIOUS
    <3>2. IsFiniteSet(1..(n + 1))
      BY ONLY <3>1, FS_Interval
    <3> QED
      BY <2>1, <3>2, FS_Subset
  <2>4. Max(H) \in H /\ \A j \in H : j <= Max(H)
    BY <2>1, <2>3, LeastAndGreatest
  <2>5. Max(H) = n + 1
    <3>1. \A m \in 1..(n + 1) : n + 1 <= m => m = n + 1
      OBVIOUS
    <3>2. Max(H) \in 1..(n + 1) /\ n + 1 <= Max(H)
      BY <2>1, <2>4
    <3> QED
      BY <3>1, <3>2
  <2> QED
    BY <1>1, <2>1, <2>2, <2>5
<1>6. InCore(more) <=> IF Header(line) THEN line = Core ELSE InCore(lines)
  BY <1>0, <1>1, <1>4, <1>5 DEF InCore
<1>7. ASSUME InCore(lines), line = Setting PROVE CheatsOn(more)
  <2>1. ~Header(line)
    BY <1>7 DEF Header, Setting, Core
  <2>2. SectionOf(more, n + 1) = Core
    BY <1>0, <1>4, <1>7, <2>1 DEF InCore
  <2> QED
    BY <1>1, <1>8, <1>7, <2>2 DEF CheatsOn
<1> QED
  BY <1>1, <1>3, <1>6, <1>7

\* What the loop has written so far: inside tells the section it ends in, and
\* once it is done the emulator reads the setting.
EditOK(acc) ==
    /\ acc.out \in Seq(Text) /\ acc.inside \in BOOLEAN
    /\ acc.inside <=> InCore(acc.out)
    /\ acc.done => CheatsOn(acc.out)

LEMMA SettingsAreText ==
    /\ Core \in Text /\ Setting \in Text /\ "none" # Core
    /\ Header(Core) /\ ~Header(Setting)
BY DEF Text, Core, Setting, Header

LEMMA LineKeeps ==
    ASSUME NEW acc, EditOK(acc), NEW line \in Text
    PROVE  EditOK(Line(acc, line))
<1> DEFINE leaves == Header(line) /\ acc.inside /\ ~acc.done
           inside == IF Header(line) THEN line = Core ELSE acc.inside
           out == IF leaves THEN Append(acc.out, Setting) ELSE acc.out
           new == Line(acc, line)
<1>0. /\ acc.out \in Seq(Text) /\ acc.inside \in BOOLEAN
      /\ acc.inside <=> InCore(acc.out)
      /\ acc.done => CheatsOn(acc.out)
  BY DEF EditOK
<1>1. /\ out \in Seq(Text)
      /\ leaves => CheatsOn(out)
      /\ acc.done => CheatsOn(out)
      /\ ~Header(line) => out = acc.out
  <2>1. CASE leaves
    <3>1. out = Append(acc.out, Setting) /\ InCore(acc.out) /\ acc.out \in Seq(Text)
      BY <1>0, <2>1
    <3>2. \A s : s = Append(acc.out, Setting) => s \in Seq(Text) /\ CheatsOn(s)
      BY ONLY <3>1, LineAfter, SettingsAreText
    <3> QED
      BY <2>1, <3>1, <3>2
  <2>2. CASE ~leaves
    BY <1>0, <2>2
  <2> QED
    BY <2>1, <2>2
<1>2. CASE inside /\ OwnLine(line)
  <2>1. new = [out |-> Append(out, Setting), inside |-> TRUE, done |-> TRUE]
    BY <1>2 DEF Line
  <2>2. ~Header(line)
    BY <1>2 DEF OwnLine, Header, Core, Setting
  <2>3. InCore(out) /\ out \in Seq(Text)
    BY <1>0, <1>1, <1>2, <2>2
  <2> HIDE DEF out
  <2>4. /\ Append(out, Setting) \in Seq(Text)
        /\ InCore(Append(out, Setting)) /\ CheatsOn(Append(out, Setting))
    BY <2>3, LineAfter, SettingsAreText
  <2> HIDE DEF new
  <2>5. new.out = Append(out, Setting) /\ new.inside = TRUE /\ new.done = TRUE
    BY <2>1
  <2>6. EditOK(new)
    BY <2>4, <2>5 DEF EditOK
  <2> QED
    BY <2>6 DEF new
<1>3. CASE ~(inside /\ OwnLine(line))
  <2>1. new = [out |-> Append(out, line), inside |-> inside, done |-> acc.done \/ leaves]
    BY <1>3 DEF Line
  <2>2. inside <=> IF Header(line) THEN line = Core ELSE InCore(out)
    BY <1>0, <1>1
  <2>3. inside \in BOOLEAN /\ (acc.done \/ leaves => CheatsOn(out)) /\ out \in Seq(Text)
    BY <1>0, <1>1
  <2> HIDE DEF out, inside, leaves, new
  <2>4. /\ Append(out, line) \in Seq(Text)
        /\ InCore(Append(out, line)) <=> IF Header(line) THEN line = Core ELSE InCore(out)
        /\ CheatsOn(out) => CheatsOn(Append(out, line))
    BY <2>3, LineAfter
  <2>5. new.out = Append(out, line) /\ new.inside = inside /\ new.done = (acc.done \/ leaves)
    BY <2>1
  <2>6. EditOK(new)
    BY <2>2, <2>3, <2>4, <2>5 DEF EditOK
  <2> QED
    BY <2>6 DEF new
<1> QED
  BY <1>2, <1>3

\* The loop as a function of the number of lines: there is one.
Fresh == [out |-> <<>>, inside |-> FALSE, done |-> FALSE]
EditsTo(f, m, lines) ==
    f = [k \in 0..m |-> IF k = 0 THEN Fresh ELSE Line(f[k - 1], lines[k])]

LEMMA EditGoesOn ==
    ASSUME NEW lines, NEW m \in Nat, NEW f, EditsTo(f, m, lines)
    PROVE  \E g : EditsTo(g, m + 1, lines)
<1> DEFINE Then(k) == IF k = 0 THEN Fresh ELSE Line(f[k - 1], lines[k])
           g == [k \in 0..(m + 1) |-> Then(k)]
<1>1. \A k \in 0..m : f[k] = Then(k)
  BY DEF EditsTo
<1>2. \A k \in 0..(m + 1) : g[k] = Then(k)
  OBVIOUS
<1>3. \A k \in 0..m : k \in 0..(m + 1)
  OBVIOUS
<1> HIDE DEF g
<1>4. \A k \in 0..m : g[k] = f[k]
  BY <1>1, <1>2, <1>3
<1>5. ASSUME NEW k \in 0..(m + 1)
      PROVE  Then(k) = IF k = 0 THEN Fresh ELSE Line(g[k - 1], lines[k])
  <2>1. CASE k = 0
    BY <2>1
  <2>2. CASE k # 0
    <3>1. k - 1 \in 0..m
      BY <2>2
    <3> QED
      BY <1>4, <2>2, <3>1
  <2> QED
    BY <2>1, <2>2
<1>6. g = [k \in 0..(m + 1) |-> IF k = 0 THEN Fresh ELSE Line(g[k - 1], lines[k])]
  BY <1>5 DEF g
<1> QED
  BY <1>6 DEF EditsTo

LEMMA EnabledUnfolds ==
    ASSUME NEW lines, Len(lines) \in Nat
    PROVE  \E f : /\ EditsTo(f, Len(lines), lines)
                  /\ Enabled(lines) =
                        IF f[Len(lines)].done THEN f[Len(lines)].out
                        ELSE IF f[Len(lines)].inside THEN Append(f[Len(lines)].out, Setting)
                        ELSE f[Len(lines)].out \o <<Core, Setting>>
<1> DEFINE T == {m \in Nat : \E f : EditsTo(f, m, lines)}
<1>1. 0 \in T
  <2> DEFINE f == [k \in 0..0 |-> Fresh]
  <2>1. f = [k \in 0..0 |-> IF k = 0 THEN Fresh ELSE Line(f[k - 1], lines[k])]
    OBVIOUS
  <2> HIDE DEF f
  <2>2. EditsTo(f, 0, lines)
    BY <2>1 DEF EditsTo
  <2> QED
    BY <2>2
<1>2. ASSUME NEW m \in T PROVE m + 1 \in T
  BY <1>2, EditGoesOn
<1>3. T \in SUBSET Nat
  OBVIOUS
<1> HIDE DEF T
<1>4. T = Nat
  BY <1>1, <1>2, <1>3, Induction
<1>5. \E f : EditsTo(f, Len(lines), lines)
  BY <1>4 DEF T
<1> DEFINE after == CHOOSE f : EditsTo(f, Len(lines), lines)
<1>6. EditsTo(after, Len(lines), lines)
  BY <1>5
<1>7. Enabled(lines) =
         IF after[Len(lines)].done THEN after[Len(lines)].out
         ELSE IF after[Len(lines)].inside THEN Append(after[Len(lines)].out, Setting)
         ELSE after[Len(lines)].out \o <<Core, Setting>>
  BY Zenon DEF Enabled, EditsTo, Fresh
<1> QED
  BY <1>6, <1>7

(* Whatever the file was, the emulator finds its cheats enabled in what    *)
(* enable_cheats makes of it.                                              *)
LEMMA EnabledIsOn ==
    ASSUME NEW lines \in Seq(Text)
    PROVE  Enabled(lines) \in Seq(Text) /\ CheatsOn(Enabled(lines))
<1>0. PICK n \in Nat : n = Len(lines)
  OBVIOUS
<1>1. PICK f : /\ EditsTo(f, n, lines)
               /\ Enabled(lines) =
                     IF f[n].done THEN f[n].out
                     ELSE IF f[n].inside THEN Append(f[n].out, Setting)
                     ELSE f[n].out \o <<Core, Setting>>
  BY <1>0, EnabledUnfolds
<1> DEFINE T == {k \in Nat : k <= n => EditOK(f[k])}
<1>2. 0 \in T
  <2>1. f[0] = Fresh
    BY <1>1 DEF EditsTo
  <2>2. Fresh.out = <<>> /\ Fresh.inside = FALSE /\ Fresh.done = FALSE
    BY DEF Fresh
  <2>3. <<>> \in Seq(Text)
    OBVIOUS
  <2>4. ~InCore(<<>>)
    <3>1. {j \in 1..0 : Header(<<>>[j])} = {} /\ Len(<<>>) = 0
      OBVIOUS
    <3> QED
      BY <3>1, SettingsAreText DEF InCore, SectionOf
  <2>5. EditOK(Fresh)
    BY <2>2, <2>3, <2>4 DEF EditOK
  <2> QED
    BY <2>1, <2>5
<1>3. ASSUME NEW k \in T PROVE k + 1 \in T
  <2> SUFFICES ASSUME k + 1 <= n PROVE EditOK(f[k + 1])
    OBVIOUS
  <2> DEFINE m == k + 1
  <2>1. m - 1 = k /\ m # 0 /\ m \in 0..n /\ m \in 1..n /\ k <= n
    OBVIOUS
  <2>2. EditOK(f[k])
    BY <2>1
  <2> HIDE DEF m
  <2>3. f[m] = Line(f[k], lines[m])
    BY <1>1, <2>1 DEF EditsTo
  <2>4. lines[m] \in Text
    BY <1>0, <2>1
  <2>5. EditOK(f[m])
    BY <2>2, <2>3, <2>4, LineKeeps
  <2> QED
    BY <2>5 DEF m
<1>4. T \in SUBSET Nat
  OBVIOUS
<1> HIDE DEF T
<1>5. T = Nat
  BY <1>2, <1>3, <1>4, Induction
<1>6. EditOK(f[n])
  BY <1>5 DEF T
<1> DEFINE out == f[n].out
<1>7. /\ out \in Seq(Text) /\ (f[n].inside <=> InCore(out))
      /\ f[n].done => CheatsOn(out)
  BY <1>6 DEF EditOK
<1> HIDE DEF out
<1>8. CASE f[n].done
  BY <1>1, <1>7, <1>8 DEF out
<1>9. CASE ~f[n].done /\ f[n].inside
  <2>1. Append(out, Setting) \in Seq(Text) /\ CheatsOn(Append(out, Setting))
    BY <1>7, <1>9, LineAfter, SettingsAreText
  <2> QED
    BY <1>1, <1>9, <2>1 DEF out
<1>10. CASE ~f[n].done /\ ~f[n].inside
  <2> DEFINE more == Append(out, Core)
             all == Append(more, Setting)
  <2>1. more \in Seq(Text) /\ InCore(more)
    BY <1>7, LineAfter, SettingsAreText
  <2> HIDE DEF more
  <2>2. all \in Seq(Text) /\ CheatsOn(all)
    BY <2>1, LineAfter, SettingsAreText
  <2>3. all = out \o <<Core, Setting>>
    BY <1>7, SettingsAreText DEF more
  <2> HIDE DEF all
  <2> QED
    BY <1>1, <1>10, <2>2, <2>3 DEF out
<1> QED
  BY <1>8, <1>9, <1>10

\* What the last step of an installation finds and what a completed one leaves.
PayloadInv ==
    /\ files.ini = <<"missing">> \/ files.ini \in Seq(Text)
    /\ installing = <<"enable_cheats">> => files.pnach = "ours"
    /\ files.complete =>
          installing = <<>> /\ files.pnach = "ours" /\ CheatsOn(files.ini)

LEMMA PayloadInit == Init => PayloadInv
<1> SUFFICES ASSUME Init PROVE PayloadInv
  OBVIOUS
<1>1. installing = <<>> /\ ~files.complete /\ files.ini \in Inis \cup {<<"missing">>}
  BY DEF Init, LinkInit
<1> QED
  BY <1>1, InisAssumption DEF PayloadInv

LEMMA PayloadInstaller == ASSUME IInv, PayloadInv, Installer PROVE PayloadInv'
<1>0. /\ DOMAIN files = Fields /\ installing \in Remaining
      /\ files.ini = <<"missing">> \/ files.ini \in Seq(Text)
      /\ installing = <<"enable_cheats">> => files.pnach = "ours"
      /\ files.complete =>
            installing = <<>> /\ files.pnach = "ours" /\ CheatsOn(files.ini)
  BY DEF IInv, Types, PayloadInv
<1>1. CASE StartInstaller
  <2>1. files'.ini = files.ini /\ files'.complete = FALSE /\ installing' = InstallSteps
    BY <1>0, <1>1 DEF StartInstaller, Fields
  <2>2. InstallSteps # <<"enable_cheats">>
    BY DEF InstallSteps
  <2> QED
    BY <1>0, <2>1, <2>2 DEF PayloadInv
<1>2. CASE AbortInstaller
  <2>1. files' = files /\ installing' = <<>> /\ installing # <<>>
    BY <1>2 DEF AbortInstaller
  <2>2. <<>> # <<"enable_cheats">>
    OBVIOUS
  <2> QED
    BY <1>0, <2>1, <2>2 DEF PayloadInv
<1>3. CASE InstallStep
  <2>0. /\ files' = Installed(files, Head(installing))
        /\ installing' = Tail(installing)
        /\ installing # <<>> /\ ~files.complete
    BY <1>0, <1>3 DEF InstallStep
  <2>1. CASE installing = InstallSteps
    <3>1. Head(installing) = "back_up" /\ installing' = <<"copy_payload", "enable_cheats">>
      BY <2>0, <2>1 DEF InstallSteps
    <3>2. files'.ini = files.ini /\ files'.complete = files.complete
      BY <1>0, <2>0, <3>1 DEF Installed, BackUp, Fields
    <3>3. <<"copy_payload", "enable_cheats">> # <<"enable_cheats">>
      OBVIOUS
    <3> QED
      BY <1>0, <2>0, <3>1, <3>2, <3>3 DEF PayloadInv
  <2>2. CASE installing = <<"copy_payload", "enable_cheats">>
    <3>1. Head(installing) = "copy_payload" /\ installing' = <<"enable_cheats">>
      BY <2>0, <2>2
    <3>2. /\ files'.ini = files.ini /\ files'.complete = files.complete
          /\ files'.pnach = "ours"
      BY <1>0, <2>0, <3>1 DEF Installed, Fields
    <3> QED
      BY <1>0, <2>0, <3>1, <3>2 DEF PayloadInv
  <2>3. CASE installing = <<"enable_cheats">>
    <3>1. Head(installing) = "enable_cheats" /\ installing' = <<>>
      BY <2>0, <2>3
    <3>2. /\ files'.ini = IF HasIni(files) THEN Enabled(files.ini) ELSE files.ini
          /\ files'.complete = HasIni(files) /\ files'.pnach = files.pnach
      BY <1>0, <2>0, <3>1 DEF Installed, Fields
    <3>3. files.pnach = "ours" /\ <<>> # <<"enable_cheats">>
      BY <1>0, <2>3
    <3>4. CASE HasIni(files)
      <4>1. files.ini \in Seq(Text)
        BY <1>0, <3>4 DEF HasIni
      <4>2. files'.ini \in Seq(Text) /\ CheatsOn(files'.ini)
        BY <3>2, <3>4, <4>1, EnabledIsOn
      <4> QED
        BY <3>1, <3>2, <3>3, <4>2 DEF PayloadInv, CheatsOn, SectionOf
    <3>5. CASE ~HasIni(files)
      BY <1>0, <3>1, <3>2, <3>3, <3>5 DEF PayloadInv
    <3> QED
      BY <3>4, <3>5
  <2> QED
    BY <1>0, <2>0, <2>1, <2>2, <2>3 DEF Remaining
<1> QED
  BY <1>1, <1>2, <1>3 DEF Installer

LEMMA PayloadStep == IInv /\ PayloadInv /\ [Next]_vars => PayloadInv'
<1> SUFFICES ASSUME IInv, PayloadInv, [Next]_vars PROVE PayloadInv'
  OBVIOUS
<1>1. CASE Installer
  BY <1>1, PayloadInstaller
<1>2. CASE files' = [files EXCEPT !.boots = @ + 1] /\ UNCHANGED installing
  <2>1. /\ files'.ini = files.ini /\ files'.pnach = files.pnach
        /\ files'.complete = files.complete
    BY <1>2 DEF IInv, Types, Fields
  <2> QED
    BY <1>2, <2>1 DEF PayloadInv, CheatsOn, SectionOf
<1>3. CASE UNCHANGED <<files, installing>>
  BY <1>3 DEF PayloadInv, CheatsOn, SectionOf
<1> QED
  BY <1>1, <1>2, <1>3, OtherSteps

\* Nothing but a boot makes an emulator of none.
LEMMA OnlyBoots == [Next]_vars /\ ~Running => Boot \/ emu' = emu
BY DEF Next, vars, linkVars, Start, Read, Write, Release, Finish, Stop, Play,
       NewGame, Exit, Others, Execute, Installer, StartInstaller, AbortInstaller,
       InstallStep

(* Whatever PCSX2.ini held and however often the installer was started,    *)
(* failed or was given up before: once it has come to its end, the next    *)
(* game has the payload.                                                   *)
THEOREM InstalledGameHasPayloadTheorem == Spec => InstalledGameHasPayload
<1>1. ASSUME PayloadInv, [Next]_vars, ~Running, emu'.pid # 0, files.complete
      PROVE  emu'.payload
  <2>1. CASE Boot
    <3>1. emu'.payload = (CheatsOn(files.ini) /\ files.pnach = "ours")
      BY <2>1 DEF Boot
    <3> QED
      BY <1>1, <3>1 DEF PayloadInv
  <2>2. CASE emu' = emu
    BY <1>1, <2>2 DEF Running, Off
  <2> QED
    BY <1>1, <2>1, <2>2, OnlyBoots
<1>2. PayloadInv /\ [Next]_vars =>
         [~Running /\ emu'.pid # 0 /\ files.complete => emu'.payload]_linkVars
  BY <1>1
<1> QED
  BY <1>2, IInvInit, IInvStep, PayloadInit, PayloadStep, PTL
     DEF Spec, InstalledGameHasPayload
-----------------------------------------------------------------------------
(* Where the memory of the game is, and its mailbox.                       *)
AreaPages(l, a) == {c \in DOMAIN l : l[c] = a}
FirstOf(l, a) == Min(AreaPages(l, a))
EndOf(l, a) == FirstOf(l, a) + EeSize - 1

EmuInv ==
    /\ DOMAIN emu = EmuFields /\ DOMAIN files = Fields /\ files.build \in Builds
    /\ Running =>
          /\ emu.layout \in Layouts
          /\ emu.base = FirstOf(emu.layout, "ee")
          /\ emu.marks = {FirstOf(emu.layout, a) + MailboxPage :
                             a \in Marked(emu.layout, emu.payload)}

LEMMA EmuInit == Init => EmuInv
BY DEF Init, LinkInit, EmuInv, Running, Off, EmuFields, Fields

LEMMA InstallerKeepsBuild ==
    ASSUME IInv, Installer
    PROVE  DOMAIN files' = Fields /\ files'.build = files.build /\ emu' = emu
<1>0. DOMAIN files = Fields /\ installing \in Remaining
  BY DEF IInv, Types
<1>1. CASE StartInstaller
  BY <1>0, <1>1 DEF StartInstaller, Fields
<1>2. CASE AbortInstaller
  BY <1>0, <1>2 DEF AbortInstaller
<1>3. CASE InstallStep
  <2>1. Head(installing) \in {"back_up", "copy_payload", "enable_cheats"}
    BY <1>0, <1>3 DEF InstallStep, Remaining, InstallSteps
  <2>2. files' = Installed(files, Head(installing)) /\ emu' = emu
    BY <1>3 DEF InstallStep
  <2> QED
    BY <1>0, <2>1, <2>2 DEF Installed, BackUp, Fields
<1> QED
  BY <1>1, <1>2, <1>3 DEF Installer

LEMMA EmuStep == IInv /\ EmuInv /\ [Next]_vars => EmuInv'
<1> SUFFICES ASSUME IInv, EmuInv, [Next]_vars PROVE EmuInv'
  OBVIOUS
<1>0. DOMAIN emu = EmuFields /\ DOMAIN files = Fields /\ files.build \in Builds
  BY DEF EmuInv
<1>1. CASE Boot
  <2>1. files' = [files EXCEPT !.boots = @ + 1]
    BY <1>1 DEF Boot
  <2>2. DOMAIN files' = Fields /\ files'.build = files.build
    BY <1>0, <2>1 DEF Fields
  <2>3. PICK l \in Layouts :
           emu' = [pid |-> files.boots + 1, layout |-> l, base |-> FirstOf(l, "ee"),
                   marks |-> {FirstOf(l, a) + MailboxPage :
                                a \in Marked(l, CheatsOn(files.ini) /\ files.pnach = "ours")},
                   payload |-> CheatsOn(files.ini) /\ files.pnach = "ours",
                   protected |-> {}]
    BY <1>1 DEF Boot, FirstOf, AreaPages
  <2>4. /\ DOMAIN emu' = EmuFields /\ emu'.layout = l /\ emu'.base = FirstOf(l, "ee")
        /\ emu'.marks = {FirstOf(l, a) + MailboxPage : a \in Marked(l, emu'.payload)}
    BY <2>3 DEF EmuFields
  <2> QED
    BY <1>0, <2>2, <2>4 DEF EmuInv
<1>2. CASE Exit
  <2>1. emu' = Off /\ files' = files
    BY <1>2 DEF Exit
  <2>2. DOMAIN Off = EmuFields
    BY DEF Off, EmuFields
  <2> QED
    BY <1>0, <2>1, <2>2 DEF EmuInv, Running, Off
<1>3. ASSUME NEW page \in CodePages, Execute(page) PROVE EmuInv'
  <2>1. /\ Running /\ files' = files
        /\ emu' = [emu EXCEPT !.protected = @ \cup {emu.base + page}]
    BY <1>3 DEF Execute
  <2>2. /\ DOMAIN emu' = EmuFields /\ emu'.layout = emu.layout /\ emu'.base = emu.base
        /\ emu'.marks = emu.marks /\ emu'.payload = emu.payload
    BY <1>0, <2>1 DEF EmuFields
  <2> QED
    BY <1>0, <2>1, <2>2 DEF EmuInv
<1>4. CASE Installer
  BY <1>0, <1>4, InstallerKeepsBuild DEF EmuInv, Running
<1>5. CASE UNCHANGED <<emu, files>>
  BY <1>5 DEF EmuInv, Running
<1> QED
  BY <1>1, <1>2, <1>3, <1>4, <1>5
     DEF Next, vars, linkVars, Start, Read, Write, Release, Finish, Stop, Play,
         NewGame, Others

\* The pages of the emulated memory follow each other, and so do those of an
\* image of it.
LEMMA AreasAreWhole ==
    ASSUME NEW l \in Layouts, NEW a \in {"ee", "image"}, AreaPages(l, a) # {}
    PROVE  /\ FirstOf(l, a) \in Nat /\ EeSize \in Nat /\ MailboxPage \in Nat
           /\ AreaPages(l, a) = FirstOf(l, a)..EndOf(l, a)
           /\ AreaPages(l, a) \subseteq 1..Len(l)
<1> DEFINE P == AreaPages(l, a)
<1>1. l \in Seq({"free", "other", "ee", "image"})
  BY LayoutsAssumption
<1>2. DOMAIN l = 1..Len(l) /\ Len(l) \in Nat
  BY <1>1
<1>3. P \subseteq 1..Len(l)
  BY <1>2 DEF AreaPages
<1>4. Cardinality(P) = EeSize /\ Max(P) - Min(P) = EeSize - 1
  BY LayoutsAssumption DEF AreaPages
<1>5. EeSize \in Nat /\ MailboxPage \in Nat
  BY SizesAssumption
<1> HIDE DEF P
<1>6. IsFiniteSet(1..Len(l)) /\ P \in SUBSET Nat
  BY <1>2, <1>3, FS_Interval
<1>7. IsFiniteSet(P)
  BY <1>3, <1>6, FS_Subset
<1>8. /\ Max(P) \in P /\ \A x \in P : x <= Max(P)
      /\ Min(P) \in P /\ \A x \in P : Min(P) <= x
  BY <1>6, <1>7, LeastAndGreatest DEF P
<1>9. PICK first \in Nat : first = Min(P)
  BY <1>6, <1>8
<1>10. Max(P) = first + EeSize - 1
  <2>1. PICK top \in Nat : top = Max(P)
    BY <1>6, <1>8
  <2>2. top - first = EeSize - 1
    BY <1>4, <1>9, <2>1
  <2>3. top = first + EeSize - 1
    BY <1>5, <2>2
  <2> QED
    BY <2>1, <2>3
<1> DEFINE last == first + EeSize - 1
           T == first..last
<1>11. P \subseteq T
  BY <1>6, <1>8, <1>9, <1>10
<1>12. IsFiniteSet(T) /\ Cardinality(T) = EeSize
  <2>1. first \in Int /\ last \in Int /\ first <= last + 1
    BY <1>5
  <2>2. last - first + 1 = EeSize
    BY <1>5
  <2> HIDE DEF last
  <2>3. IsFiniteSet(T) /\ Cardinality(T) = IF first > last THEN 0 ELSE last - first + 1
    BY <2>1, FS_Interval
  <2>4. first > last => last - first + 1 = 0
    BY <2>1
  <2> QED
    BY <2>2, <2>3, <2>4
<1> HIDE DEF T
<1>13. P = T
  BY <1>4, <1>11, <1>12, FS_Subset
<1> QED
  BY <1>3, <1>5, <1>9, <1>13 DEF T, P, FirstOf, EndOf

(* The region of a page, as the scanners compute it: from the last start    *)
(* before it to the next one, and all of it is of the page's area.         *)
RegionEnd(c) == Min({d \in Starts : d > c} \cup {Len(emu.layout) + 1})

LEMMA RegionOfPage ==
    ASSUME Running, EmuInv, NEW p \in Pages
    PROVE  \E c \in Starts :
              /\ c \in Nat /\ RegionEnd(c) \in Nat /\ c <= p /\ p < RegionEnd(c)
              /\ \A d \in c..(RegionEnd(c) - 1) :
                    d \in Pages /\ emu.layout[d] = emu.layout[p]
<1>1. emu.layout \in Seq({"free", "other", "ee", "image"})
  BY LayoutsAssumption DEF EmuInv
<1>2. PICK n \in Nat : n = Len(emu.layout)
  BY <1>1
<1>3. Pages = 1..n /\ p \in 1..n /\ p \in Nat
  BY <1>1, <1>2 DEF Pages
<1> DEFINE before == {d \in Starts : d <= p}
<1>4. before \in SUBSET (1..n) /\ Starts \in SUBSET (1..n)
  BY <1>3 DEF Starts
<1>5. 1 \in before
  BY <1>3 DEF Starts
<1>6. IsFiniteSet(1..n) /\ IsFiniteSet(1..(n + 1))
  <2>1. 1 \in Int /\ n \in Int /\ n + 1 \in Int
    OBVIOUS
  <2> QED
    BY ONLY <2>1, FS_Interval
<1>7. Max(before) \in before /\ \A d \in before : d <= Max(before)
  <2>1. before \in SUBSET Nat /\ IsFiniteSet(before) /\ before # {}
    BY <1>4, <1>5, <1>6, FS_Subset
  <2> HIDE DEF before
  <2> QED
    BY <2>1, LeastAndGreatest
<1>8. PICK c \in Starts : c <= p /\ c \in 1..n /\ \A d \in Starts : d <= p => d <= c
  BY <1>4, <1>7
<1> DEFINE after == {d \in Starts : d > c} \cup {n + 1}
<1>9. after \in SUBSET (1..(n + 1)) /\ n + 1 \in after
  <2>1. 1..n \subseteq 1..(n + 1) /\ n + 1 \in 1..(n + 1)
    OBVIOUS
  <2>2. Starts \subseteq 1..(n + 1)
    BY <1>4, <2>1
  <2> QED
    BY <2>1, <2>2
<1>10. Min(after) \in after /\ \A d \in after : Min(after) <= d
  <2>1. after \in SUBSET Nat /\ IsFiniteSet(after) /\ after # {}
    BY <1>6, <1>9, FS_Subset
  <2> HIDE DEF after
  <2> QED
    BY <2>1, LeastAndGreatest
<1>11. RegionEnd(c) = Min(after)
  BY <1>2 DEF RegionEnd
<1>12. PICK e \in 1..(n + 1) :
          /\ e = RegionEnd(c) /\ e \in after /\ \A d \in after : e <= d
  BY <1>9, <1>10, <1>11
<1>13. p < e
  BY <1>3, <1>4, <1>8, <1>12
<1>14. ASSUME NEW d \in (c + 1)..(e - 1)
       PROVE  d \in 1..n /\ emu.layout[d - 1] = emu.layout[d]
  <2>1. d \in 1..n /\ d > 1 /\ d > c /\ d < e
    BY <1>8, <1>12
  <2>2. d \notin Starts
    BY <1>12, <2>1
  <2> QED
    BY <1>3, <2>1, <2>2 DEF Starts, Alike
<1> DEFINE T == {k \in Nat : c + k < e => emu.layout[c + k] = emu.layout[c]}
<1>15. 0 \in T
  BY <1>8
<1>16. ASSUME NEW k \in T PROVE k + 1 \in T
  <2> SUFFICES ASSUME c + (k + 1) < e PROVE emu.layout[c + (k + 1)] = emu.layout[c]
    OBVIOUS
  <2> DEFINE d == c + (k + 1)
  <2>1. d \in (c + 1)..(e - 1) /\ d - 1 = c + k /\ c + k < e
    BY <1>8, <1>12
  <2> HIDE DEF d
  <2>2. emu.layout[d - 1] = emu.layout[d]
    BY <1>14, <2>1
  <2>3. emu.layout[d] = emu.layout[c]
    BY <2>1, <2>2
  <2> QED
    BY <2>3 DEF d
<1>17. T \in SUBSET Nat
  OBVIOUS
<1> HIDE DEF T
<1>18. T = Nat
  BY <1>15, <1>16, <1>17, Induction
<1>19. ASSUME NEW d \in c..(e - 1) PROVE d \in 1..n /\ emu.layout[d] = emu.layout[c]
  <2>1. d \in 1..n
    BY <1>8, <1>12
  <2>2. PICK k \in Nat : d = c + k
    <3>1. d - c \in Nat /\ d = c + (d - c)
      BY <1>8
    <3> QED
      BY <3>1
  <2>3. c + k < e
    BY <1>8, <1>12, <2>2
  <2> QED
    BY <1>18, <2>1, <2>2, <2>3 DEF T
<1>20. p \in c..(e - 1)
  BY <1>3, <1>8, <1>12, <1>13
<1>21. \A d \in c..(e - 1) : d \in Pages /\ emu.layout[d] = emu.layout[p]
  BY <1>3, <1>19, <1>20
<1> QED
  BY <1>8, <1>12, <1>13, <1>21

\* What the three scanners have in common.
Finding(s) ==
    /\ s.least = 1 /\ s.piece = Chunk /\ s.builds = Builds
    /\ s.upto \in Nat /\ MailboxPage < s.upto

LEMMA ScannersFind ==
    ASSUME NEW s \in {BridgeScan, ApiScan, ExploreScan}
    PROVE  Finding(s)
<1>1. s.least = 1 /\ s.piece = Chunk /\ s.builds = Builds /\ s.upto \in {Near, Far}
  BY DEF BridgeScan, ApiScan, ExploreScan
<1>2. Near \in Nat /\ Far \in Nat /\ MailboxPage < Near /\ MailboxPage < Far
  BY SizesAssumption
<1> QED
  BY <1>1, <1>2 DEF Finding

\* What a scanner reads of a region of n pages that starts at c.
Offsets(s, n) == {o \in 0..(Min({n, s.upto}) - 1) : o % s.piece = 0}
PieceEnd(s, c, n, o) == c + o - 1 + IF s.cut THEN Min({s.piece, n - o}) ELSE s.piece

LEMMA ReadUnfolds ==
    ASSUME NEW s, NEW c, NEW n, NEW o \in Offsets(s, n),
           \A q \in Offsets(s, n) : q <= o => Readable(c + q, PieceEnd(s, c, n, q)),
           \A q \in Offsets(s, n) : q \in Nat, o \in Nat,
           NEW p, p \in (c + o)..PieceEnd(s, c, n, o)
    PROVE  p \in PagesRead(s, c, n)
<1> DEFINE End(x) == c + x - 1 + IF s.cut THEN Min({s.piece, n - x}) ELSE s.piece
           failed == {x \in Offsets(s, n) : ~Readable(c + x, End(x))}
           good == {x \in Offsets(s, n) : \A q \in failed : x < q}
<1>1. PagesRead(s, c, n) = UNION {(c + x)..End(x) : x \in good}
  BY DEF PagesRead, Offsets
<1>2. \A x : End(x) = PieceEnd(s, c, n, x)
  BY DEF PieceEnd
<1> HIDE DEF End
<1>3. o \in good
  BY <1>2
<1>4. p \in (c + o)..End(o)
  BY <1>2
<1> QED
  BY <1>1, <1>3, <1>4

\* The piece the mailbox is in, and all the pieces before it, are read.
LEMMA PieceIsRead ==
    ASSUME NEW s, Finding(s), NEW c \in Nat, NEW n \in Nat, NEW p \in Nat,
           c <= p, p < c + n, p - c <= MailboxPage,
           \A d \in c..(p + Chunk - 1) : Readable(d, d)
    PROVE  p \in PagesRead(s, c, n)
<1>1. Chunk \in Nat \ {0} /\ MailboxPage \in Nat /\ n \in Int
  BY SizesAssumption
<1>2. s.piece = Chunk /\ s.upto \in Nat /\ MailboxPage < s.upto
  BY DEF Finding
<1> DEFINE away == p - c
           q == away \div Chunk
           o == Chunk * q
<1>3. away \in Nat /\ away \in Int /\ away < n /\ away < s.upto
  BY <1>1, <1>2
<1>4. /\ q \in Int /\ away % Chunk \in 0..(Chunk - 1)
      /\ away = Chunk * q + (away % Chunk)
  <2> HIDE DEF away
  <2> QED
    BY <1>1, <1>3, Division
<1>5. q \in Nat
  <2> SUFFICES ASSUME q < 0 PROVE FALSE
    BY <1>4
  <2> DEFINE r == away % Chunk
  <2>1. q <= -1 /\ r \in 0..(Chunk - 1) /\ away = Chunk * q + r /\ q \in Int
    BY <1>4
  <2> HIDE DEF q, r
  <2>2. Chunk * q <= Chunk * (-1)
    BY <1>1, <2>1
  <2>3. Chunk * (-1) = -Chunk /\ Chunk * q \in Int
    BY <1>1, <2>1
  <2> HIDE DEF away
  <2> QED
    BY <1>1, <1>3, <2>1, <2>2, <2>3
<1>6. o \in Nat /\ o <= away /\ away < o + Chunk
  <2> HIDE DEF q, away
  <2>1. o \in Nat
    BY <1>1, <1>5
  <2> HIDE DEF o
  <2>2. away = o + (away % Chunk)
    BY <1>4 DEF o
  <2> QED
    BY <1>1, <1>3, <1>4, <2>1, <2>2
<1>7. o % Chunk = 0
  <2> DEFINE z == 0
  <2>1. z \in 0..(Chunk - 1)
    BY <1>1
  <2> HIDE DEF q, z
  <2>2. (Chunk * q + z) % Chunk = z
    BY <1>1, <1>4, <2>1, Remainder
  <2>3. Chunk * q + z = Chunk * q
    BY <1>1, <1>4 DEF z
  <2> QED
    BY <2>2, <2>3 DEF z
<1> HIDE DEF q, o
<1>8. Min({n, s.upto}) \in Nat /\ away < Min({n, s.upto})
  BY <1>1, <1>2, <1>3, MinOfTwo
<1>9. o \in Offsets(s, n) /\ \A x \in Offsets(s, n) : x \in Nat /\ x < n
  <2>1. Min({n, s.upto}) <= n
    BY <1>2, MinOfTwo
  <2> DEFINE least == Min({n, s.upto})
  <2> HIDE DEF least
  <2>2. \A x \in 0..(least - 1) : x \in Nat /\ x < n
    BY <1>8, <2>1 DEF least
  <2>3. o \in 0..(least - 1)
    BY <1>6, <1>8 DEF least
  <2> QED
    BY <1>2, <1>7, <2>2, <2>3 DEF Offsets, least
<1>10. ASSUME NEW x \in Offsets(s, n)
       PROVE  \E k \in Nat : /\ PieceEnd(s, c, n, x) = c + x - 1 + k
                             /\ k <= Chunk /\ (k = Chunk \/ k = n - x)
  <2>1. x \in Nat /\ x < n
    BY <1>9
  <2>2. n - x \in Nat /\ Chunk \in Int
    BY <1>1, <2>1
  <2>3. CASE s.cut
    <3>1. Min({Chunk, n - x}) = IF Chunk <= n - x THEN Chunk ELSE n - x
      BY <2>2, MinOfTwo
    <3>2. PieceEnd(s, c, n, x) = c + x - 1 + Min({Chunk, n - x})
      BY <1>2, <2>3 DEF PieceEnd
    <3>3. /\ Min({Chunk, n - x}) \in Nat /\ Min({Chunk, n - x}) <= Chunk
          /\ Min({Chunk, n - x}) = Chunk \/ Min({Chunk, n - x}) = n - x
      BY <1>1, <2>2, <3>1
    <3> QED
      BY <3>2, <3>3
  <2>4. CASE ~s.cut
    BY <1>1, <1>2, <2>4 DEF PieceEnd
  <2> QED
    BY <2>3, <2>4
<1>11. ASSUME NEW x \in Offsets(s, n), x <= o
       PROVE  Readable(c + x, PieceEnd(s, c, n, x))
  <2>1. PICK k \in Nat : PieceEnd(s, c, n, x) = c + x - 1 + k /\ k <= Chunk
    BY <1>10
  <2>2. x \in Nat
    BY <1>9
  <2>3. \A d \in (c + x)..PieceEnd(s, c, n, x) : d \in c..(p + Chunk - 1) /\ d \in d..d
    BY <1>1, <1>6, <1>11, <2>1, <2>2
  <2> QED
    BY <2>3 DEF Readable
<1>12. p \in (c + o)..PieceEnd(s, c, n, o)
  <2>1. PICK k \in Nat : /\ PieceEnd(s, c, n, o) = c + o - 1 + k
                         /\ k = Chunk \/ k = n - o
    BY <1>9, <1>10
  <2> QED
    BY <1>1, <1>6, <2>1
<1> QED
  BY <1>6, <1>9, <1>11, <1>12, ReadUnfolds

\* An image of the memory that is not before the game's is after it.
LEMMA GameFirst ==
    ASSUME Running, EmuInv, emu.payload, ~Misled
    PROVE  /\ emu.base \in Nat /\ MailboxPage \in Nat /\ EeSize \in Nat
           /\ AreaPages(emu.layout, "ee") = emu.base..(emu.base + EeSize - 1)
           /\ AreaPages(emu.layout, "ee") \subseteq 1..Len(emu.layout)
           /\ emu.base + MailboxPage \in emu.marks
           /\ \A m \in emu.marks : m \in Nat /\ m >= emu.base + MailboxPage
           /\ IsFiniteSet(emu.marks)
<1> DEFINE l == emu.layout
           b == emu.base
           First(a) == FirstOf(l, a)
<1>1. /\ l \in Layouts /\ b = First("ee")
      /\ emu.marks = {First(a) + MailboxPage : a \in Marked(l, emu.payload)}
  BY DEF EmuInv
<1>2. AreaPages(l, "ee") # {}
  BY <1>1, LayoutsAssumption DEF AreaPages
<1>3. /\ b \in Nat /\ MailboxPage \in Nat /\ EeSize \in Nat
      /\ AreaPages(l, "ee") = b..(b + EeSize - 1)
      /\ AreaPages(l, "ee") \subseteq 1..Len(l)
  <2> HIDE DEF l, b
  <2>1. "ee" \in {"ee", "image"}
    OBVIOUS
  <2> QED
    BY <1>1, <1>2, <2>1, AreasAreWhole DEF EndOf
<1>4. Marked(l, emu.payload) = ({"image"} \cap Range(l)) \cup {"ee"}
  BY DEF Marked
<1>5. b + MailboxPage \in emu.marks
  BY <1>1, <1>4
<1>6. ASSUME "image" \in Range(l)
      PROVE  First("image") \in Nat /\ b <= First("image")
  <2>1. AreaPages(l, "image") # {}
    BY <1>6 DEF AreaPages, Range
  <2>2. /\ First("image") \in Nat
        /\ AreaPages(l, "image") = First("image")..(First("image") + EeSize - 1)
    <3>1. "image" \in {"ee", "image"}
      OBVIOUS
    <3> HIDE DEF l
    <3> QED
      BY <1>1, <2>1, <3>1, AreasAreWhole DEF EndOf
  <2>3. PICK i \in Nat : i = First("image")
    BY <2>2
  <2>4. AreaPages(l, "image") \cap AreaPages(l, "ee") = {}
    BY DEF AreaPages
  <2>5. i + MailboxPage \in emu.marks
    BY <1>1, <1>4, <1>6, <2>3
  <2>6. ~(i + MailboxPage < b)
    BY <2>5 DEF Misled
  <2>7. MailboxPage < EeSize
    BY SizesAssumption
  <2>8. (i..(i + EeSize - 1)) \cap (b..(b + EeSize - 1)) = {}
    BY <1>3, <2>2, <2>3, <2>4
  <2>9. b <= i
    <3> SUFFICES ASSUME i < b PROVE FALSE
      BY <1>3
    <3> HIDE DEF l, b
    <3>1. b \in i..(i + EeSize - 1) /\ b \in b..(b + EeSize - 1)
      BY <1>3, <2>6, <2>7
    <3> QED
      BY <2>8, <3>1
  <2> QED
    BY <2>3, <2>9
<1>7. emu.marks \subseteq {b + MailboxPage, First("image") + MailboxPage}
  BY <1>1, <1>4
<1>8. ASSUME NEW m \in emu.marks
      PROVE  m \in Nat /\ m >= b + MailboxPage
  <2>1. PICK a \in Marked(l, emu.payload) : m = First(a) + MailboxPage
    BY <1>1
  <2>2. CASE a = "ee"
    BY <1>1, <1>3, <2>1, <2>2
  <2>3. CASE a = "image" /\ "image" \in Range(l)
    <3>1. PICK i \in Nat : i = First("image") /\ b <= i
      BY <1>6, <2>3
    <3>2. m = i + MailboxPage
      BY <2>1, <2>3, <3>1
    <3> HIDE DEF b
    <3> QED
      BY <1>3, <3>1, <3>2
  <2> QED
    BY <1>4, <2>1, <2>2, <2>3
<1>9. IsFiniteSet(emu.marks)
  <2> DEFINE x == b + MailboxPage
             y == First("image") + MailboxPage
             Two == {x, y}
  <2>1. IsFiniteSet({x}) /\ IsFiniteSet(Two)
    <3> HIDE DEF x, y
    <3>1. IsFiniteSet({x}) /\ IsFiniteSet({y})
      BY FS_Singleton
    <3>2. Two = {x} \cup {y}
      OBVIOUS
    <3> QED
      BY <3>1, <3>2, FS_Union
  <2>2. emu.marks \subseteq Two
    BY <1>7
  <2> HIDE DEF Two
  <2> QED
    BY <2>1, <2>2, FS_Subset
<1> QED
  BY <1>3, <1>5, <1>8, <1>9

LEMMA ScanFinds ==
    ASSUME Running, EmuInv, emu.payload, ~Misled, NEW s, Finding(s)
    PROVE  Scan(s) = emu.base + MailboxPage
<1>1. PICK b \in Nat : b = emu.base
  BY GameFirst
<1>2. PICK p \in Nat : p = b + MailboxPage
  BY <1>1, GameFirst
<1>3. /\ AreaPages(emu.layout, "ee") = b..(b + EeSize - 1)
      /\ EeSize \in Nat /\ Chunk \in Nat /\ MailboxPage \in Nat /\ 1 < Chunk
      /\ MailboxPage + Chunk < EeSize
  BY <1>1, GameFirst, SizesAssumption
<1>4. \A d \in b..(b + EeSize - 1) : d \in Pages /\ emu.layout[d] = "ee"
  BY <1>3 DEF AreaPages, Pages
<1>5. p \in b..(b + EeSize - 1)
  BY <1>2, <1>3
<1>6. PICK c \in Starts :
         /\ c \in Nat /\ RegionEnd(c) \in Nat /\ c <= p /\ p < RegionEnd(c)
         /\ \A d \in c..(RegionEnd(c) - 1) :
               d \in Pages /\ emu.layout[d] = emu.layout[p]
  BY <1>4, <1>5, RegionOfPage
<1>7. c \in c..(RegionEnd(c) - 1) /\ emu.layout[c] = "ee" /\ c \in Pages
  BY <1>4, <1>5, <1>6
<1>8. c \in b..(b + EeSize - 1)
  BY <1>3, <1>7 DEF AreaPages, Pages
<1>9. p - c <= MailboxPage
  BY <1>2, <1>3, <1>6, <1>8
<1>10. \A d \in c..(p + Chunk - 1) : Readable(d, d)
  <2> SUFFICES ASSUME NEW d \in c..(p + Chunk - 1) PROVE Readable(d, d)
    OBVIOUS
  <2>1. d \in b..(b + EeSize - 1)
    BY <1>2, <1>3, <1>6, <1>8
  <2>2. \A e \in d..d : e = d
    BY <2>1
  <2> QED
    BY <1>4, <2>1, <2>2 DEF Readable
<1> DEFINE Size(d) == Min({e \in Starts : e > d} \cup {Len(emu.layout) + 1}) - d
           regions == {d \in Starts : emu.layout[d] # "free" /\ Size(d) >= s.least}
           read == UNION {PagesRead(s, d, Size(d)) : d \in regions}
           wanted == IF files.build \in s.builds THEN emu.marks ELSE {}
           found_ == wanted \cap read
<1>11. PICK n \in Nat : n = Size(c) /\ n >= 1 /\ p < c + n
  <2>1. PICK e \in Nat : e = RegionEnd(c) /\ c <= p /\ p < e
    BY <1>6
  <2>2. Size(c) = e - c
    BY <2>1 DEF RegionEnd
  <2>3. e - c \in Nat /\ e - c >= 1 /\ p < c + (e - c)
    BY <1>6, <2>1
  <2> HIDE DEF Size
  <2> QED
    BY <2>2, <2>3
<1> HIDE DEF Size
<1>12. c \in regions
  BY <1>6, <1>7, <1>11 DEF Finding
<1>13. p \in PagesRead(s, c, n)
  BY <1>6, <1>9, <1>10, <1>11, PieceIsRead
<1>14. p \in read
  BY <1>11, <1>12, <1>13
<1>15. wanted = emu.marks
  BY DEF Finding, EmuInv
<1> HIDE DEF read, wanted
<1>16. p \in found_ /\ found_ \subseteq emu.marks
  BY <1>1, <1>2, <1>14, <1>15, GameFirst
<1>17. found_ \in SUBSET Nat /\ IsFiniteSet(found_) /\ found_ # {}
  <2> HIDE DEF found_
  <2> QED
    BY <1>16, GameFirst, FS_Subset
<1>18. Scan(s) = Min(found_)
  BY <1>16 DEF Scan, read, wanted, Size
<1>19. Min(found_) \in found_ /\ \A x \in found_ : Min(found_) <= x
  <2> HIDE DEF found_
  <2> QED
    BY <1>17, LeastAndGreatest
<1>20. PICK m \in Nat : m = Min(found_) /\ m <= p /\ m >= p
  BY <1>1, <1>2, <1>16, <1>17, <1>19, GameFirst
<1> QED
  BY <1>1, <1>2, <1>18, <1>20

(* Wherever the emulated memory is among the areas of the process, however *)
(* long it is next to the pieces the scanners read, and whatever pages of  *)
(* it the emulator has protected: the scanners find the mailbox.           *)
THEOREM PayloadIsFoundTheorem == Spec => []PayloadIsFound
<1>1. EmuInv => PayloadIsFound
  BY ScannersFind, ScanFinds DEF PayloadIsFound
<1> QED
  BY <1>1, IInvInit, IInvStep, EmuInit, EmuStep, PTL DEF Spec
=============================================================================
