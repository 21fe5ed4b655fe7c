--------------------------- MODULE BorrowedMemory ---------------------------
(***************************************************************************)
(* Words of the running game changed from outside, for a while or for      *)
(* good: tools/pulse_dealer_lock.py, probe_vehicle_locks.py,               *)
(* map_vehicle_selection.py with mc3api/dealer.py, action_driver.py,       *)
(* live_inject.py and probe_memory.py, over the links of EmulatorLink.     *)
(*                                                                         *)
(* The game goes on meanwhile, two tools may be started, each may be       *)
(* stopped anywhere, and the emulator may end under them.  Every read and  *)
(* every write is a call of its own.                                       *)
(***************************************************************************)
EXTENDS EmulatorLink

CONSTANTS
    Tools,         \* the processes
    Words,         \* words of the game
    PageOf,        \* Words -> the page of the emulated memory each is in
    Pairs,         \* the words commands are given, two at a time
    GameValues,    \* what the game writes to them
    MaxWrites,     \* bound: writes of the game
    MaxStarts,     \* bound: times a tool is started
    UsualFiles(_)  \* bound: the files are these when a tool is started

ASSUME WordsAssumption == PageOf \in [Words -> 0..(EeSize - 1)]
ASSUME ToolsAssumption == "game" \notin Tools
ASSUME ValuesAssumption == GameValues \subseteq Nat /\ Pairs \subseteq Words \X Words

VARIABLES
    game,          \* the words
    image,         \* the words of the image, where there is one
    tool,          \* what each process is doing
    found,         \* what was in the words a process has read, then
    alone,         \* has nobody else written to them since?
    writes,        \* how often the game has
    starts         \* how often a tool was started

borrowVars == <<game, image, tool, found, alone, writes, starts>>
vars == <<linkVars, borrowVars>>

Done == [kind |-> "none"]

Init ==
    /\ LinkInit
    /\ game = [w \in Words |-> 0] /\ image = [w \in Words |-> 0]
    /\ tool = [t \in Tools |-> Done]
    /\ found = [t \in Tools |-> <<>>]
    /\ alone = [t \in Tools |-> TRUE]
    /\ writes = 0 /\ starts = 0
-----------------------------------------------------------------------------
(* What the commands do: the scanner they connect with, the writes they    *)
(* make, the order they put things back in (or not).                       *)

\* pulse and test-flag of pulse_dealer_lock.
Pulse(w) == [scan |-> BridgeScan, writes |-> <<<<w, 2>>>>, back |-> TRUE]
TestFlag(w) == [scan |-> BridgeScan, writes |-> <<<<w, 1>>, <<w, 0>>>>, back |-> TRUE]
\* A row's two bytes, of probe_vehicle_locks: for a while, or for good.
PulseValue(v, w) ==
    [scan |-> BridgeScan, writes |-> <<<<v, 2>>, <<w, 1>>>>, back |-> TRUE]
SetValue(v, w) ==
    [scan |-> BridgeScan, writes |-> <<<<v, 2>>, <<w, 2>>>>, back |-> FALSE]
\* The addresses of a report, as they were given on the command line.
PulseFromReport(ws) ==
    [scan |-> BridgeScan, writes |-> [i \in DOMAIN ws |-> <<ws[i], 2>>], back |-> TRUE]
\* For good, and read back to say whether it worked.
SetMoney(w) == [scan |-> ExploreScan, writes |-> <<<<w, 2>>>>, back |-> FALSE]
WriteWord(w) == [scan |-> InjectScan, writes |-> <<<<w, 2>>>>, back |-> FALSE]
Hexpatch(v, w) ==
    [scan |-> InjectScan, writes |-> <<<<v, 2>>, <<w, 1>>>>, back |-> FALSE]
Patch(w) == [scan |-> InjectScan, writes |-> <<<<w, 2>>>>, back |-> FALSE]
Heartbeat(w) == [scan |-> ProbeScan, writes |-> <<<<w, 2>>>>, back |-> FALSE]

Command(kind, v, w) ==
    CASE kind = "pulse" -> Pulse(v)
      [] kind = "test_flag" -> TestFlag(v)
      [] kind = "pulse_value" -> PulseValue(v, w)
      [] kind = "set_value" -> SetValue(v, w)
      [] kind = "report" -> PulseFromReport(<<v, w>>)
      [] kind = "money" -> SetMoney(v)
      [] kind = "write" -> WriteWord(v)
      [] kind = "hexpatch" -> Hexpatch(v, w)
      [] kind = "patch" -> Patch(v)
      [] kind = "heartbeat" -> Heartbeat(v)

Kinds == {"pulse", "test_flag", "pulse_value", "set_value", "report", "money",
          "write", "hexpatch", "patch", "heartbeat"}

\* The two bytes of a row, the words of a patch are two; the addresses of a report need not be.
Sensible(kind, v, w) ==
    IF kind \in {"pulse_value", "set_value", "hexpatch"} THEN v # w
    ELSE kind = "report" \/ v = w
-----------------------------------------------------------------------------
(* A link: the process and where in it the mailbox was.  Nothing renews it. *)

Link(s) == [pid |-> emu.pid, mailbox |-> Scan(s)]
Target(t, w) == tool[t].mailbox - MailboxPage + PageOf[w]
Alive(t, w) == tool[t].pid = emu.pid /\ Readable(Target(t, w), Target(t, w))
Area(t, w) == emu.layout[Target(t, w)]
Shielded(t, w) == Target(t, w) \in emu.protected

ReadWord(t, w) == IF Area(t, w) = "ee" THEN game[w] ELSE image[w]

\* A write: it lands, it raises, or it is lost without a word.  The bridge
\* lifts the protection of a page and puts it back.
BridgeWrite(t, w) == IF Alive(t, w) THEN "lands" ELSE "raises"
CheckedWrite(t, w) == IF Alive(t, w) /\ ~Shielded(t, w) THEN "lands" ELSE "raises"
ExploreWrite(t, w) == IF Alive(t, w) /\ ~Shielded(t, w) THEN "lands" ELSE "lost"

Outcome(t, w) ==
    CASE tool[t].kind = "money" -> ExploreWrite(t, w)
      [] tool[t].kind \in {"write", "hexpatch", "patch", "heartbeat"} -> CheckedWrite(t, w)
      [] OTHER -> BridgeWrite(t, w)

\* Others that have read w can no longer count on finding what they wrote.
Seen(w, self) ==
    [t \in Tools |-> alone[t] /\ (t = self \/ w \notin DOMAIN found[t])]

Land(t, w, v) ==
    IF Area(t, w) = "ee"
    THEN /\ game' = [game EXCEPT ![w] = v]
         /\ alone' = Seen(w, t)
         /\ UNCHANGED image
    ELSE image' = [image EXCEPT ![w] = v] /\ UNCHANGED <<game, alone>>

Put(t, w, v) ==
    \/ Outcome(t, w) = "lands" /\ Land(t, w, v)
    \/ Outcome(t, w) = "lost" /\ UNCHANGED <<game, image, alone>>

\* The process ends; what it remembered is gone with it.
Ends(t) ==
    /\ tool' = [tool EXCEPT ![t] = Done]
    /\ found' = [found EXCEPT ![t] = <<>>]
-----------------------------------------------------------------------------
(* The steps of a process.                                                 *)

Start(t) ==
    /\ tool[t] = Done /\ Running /\ UsualFiles(files)
    /\ starts < MaxStarts /\ starts' = starts + 1
    /\ \E s \in {BridgeScan, ExploreScan, InjectScan, ProbeScan} :
       LET link == Link(s) IN
       /\ link.mailbox # 0
       /\ \E kind \in Kinds, pair \in Pairs :
          LET v == pair[1]
              w == pair[2]
              c == Command(kind, v, w)
          IN
          /\ Sensible(kind, v, w) /\ c.scan = s
          /\ tool' = [tool EXCEPT ![t] =
                [kind |-> kind, pid |-> link.pid, mailbox |-> link.mailbox,
                 todo |-> c.writes, kept |-> <<>>, read |-> FALSE,
                 phase |-> "write", back |-> c.back, given |-> IF v = w THEN <<v>> ELSE <<v, w>>,
                 once |-> kind # "report" \/ v # w]]
    /\ alone' = [alone EXCEPT ![t] = TRUE]
    /\ UNCHANGED <<linkVars, game, image, found, writes>>

\* Three commands read nothing first, test-flag reads its word once; the others
\* each word before writing it, a word given twice a second time.
Reads(t) ==
    /\ tool[t].kind \notin {"none", "money", "write", "hexpatch"}
    /\ tool[t].phase = "write" /\ tool[t].todo # <<>> /\ ~tool[t].read
    /\ ~(tool[t].kind = "test_flag" /\ Head(tool[t].todo)[1] \in DOMAIN tool[t].kept)

\* mutant: read after the write
Kept_Again(t, w) == tool[t].todo[1][2]

Kept(t, w) == ReadWord(t, w)

Noted(f, w, v) == [x \in DOMAIN f \cup {w} |-> IF x = w THEN v ELSE f[x]]

Read(t) ==
    LET w == Head(tool[t].todo)[1] IN
    /\ Reads(t) /\ Alive(t, w)
    /\ tool' = [tool EXCEPT ![t].read = TRUE,
                            ![t].kept = Noted(@, w, Kept(t, w))]
    /\ found' = [found EXCEPT ![t] = IF w \in DOMAIN @ THEN @
                                     ELSE Noted(@, w, game[w])]
    /\ UNCHANGED <<linkVars, game, image, alone, writes, starts>>

Write(t) ==
    /\ tool[t].kind # "none"
    /\ tool[t].todo # <<>> /\ ~Reads(t)
    /\ Put(t, Head(tool[t].todo)[1], Head(tool[t].todo)[2])
    /\ tool' = [tool EXCEPT ![t].todo = Tail(@), ![t].read = FALSE]
    /\ UNCHANGED <<linkVars, found, writes, starts>>

\* The words that were kept, in the order they were first given: all were.
Return(t) ==
    LET ws == tool[t].given IN [i \in DOMAIN ws |-> <<ws[i], tool[t].kept[ws[i]]>>]

\* What was held long enough is put back.
Release(t) ==
    /\ tool[t].kind # "none"
    /\ tool[t].phase = "write" /\ tool[t].todo = <<>> /\ tool[t].back
    /\ tool' = [tool EXCEPT ![t].phase = "back", ![t].todo = Return(t)]
    /\ UNCHANGED <<linkVars, game, image, found, alone, writes, starts>>

Finished(t) ==
    /\ tool[t].kind # "none"
    /\ tool[t].todo = <<>>
    /\ tool[t].phase = "back" \/ ~tool[t].back

Finish(t) ==
    /\ Finished(t) /\ Ends(t)
    /\ UNCHANGED <<linkVars, game, image, alone, writes, starts>>

\* Ctrl-C, or a call that fails.  pulse-from-report alone puts things back
\* then, and only if its writes had all been made.
Stop(t) ==
    /\ tool[t].kind # "none" /\ ~Finished(t)
    /\ ~(tool[t].kind = "report" /\ tool[t].phase = "write" /\ tool[t].todo = <<>>)
    /\ Ends(t)
    /\ UNCHANGED <<linkVars, game, image, alone, writes, starts>>

Play(w, v) ==
    /\ Running /\ writes < MaxWrites
    /\ game[w] # v
    /\ game' = [game EXCEPT ![w] = v]
    /\ alone' = Seen(w, "game")
    /\ writes' = writes + 1
    /\ UNCHANGED <<linkVars, image, tool, found, starts>>

\* In another game every word starts anew.
NewGame ==
    /\ Boot \/ Exit
    /\ game' = [w \in Words |-> 0] /\ image' = [w \in Words |-> 0]
    /\ alone' = [t \in Tools |-> found[t] = <<>>]
    /\ UNCHANGED <<tool, found, writes, starts>>

\* The installer and a tool have nothing in common: one after the other.
Others ==
    /\ \/ Installer /\ \A t \in Tools : tool[t] = Done
       \/ \E page \in CodePages : Execute(page)
    /\ UNCHANGED borrowVars

Next ==
    \/ \E t \in Tools : Start(t) \/ Read(t) \/ Write(t) \/ Release(t)
                        \/ Finish(t) \/ Stop(t)
    \/ \E w \in Words, v \in GameValues : Play(w, v)
    \/ NewGame
    \/ Others

Spec == Init /\ [][Next]_vars
-----------------------------------------------------------------------------
(* A pulse that comes to its end leaves every word of the game that it      *)
(* touched as it found it, unless somebody else wrote to the word          *)
(* meanwhile or the same address was given twice.  (A pulse that is        *)
(* stopped or fails half way promises nothing: see Stop.)                  *)
BorrowedIsReturned ==
    [][\A t \in Tools :
          (Finish(t) /\ tool[t].back /\ alone[t] /\ tool[t].once) =>
             \A w \in DOMAIN found[t] : game[w] = found[t][w]]_vars
=============================================================================
