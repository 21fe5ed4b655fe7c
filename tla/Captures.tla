------------------------------ MODULE Captures ------------------------------
(***************************************************************************)
(* What the exploration tools conclude from memory read while the game     *)
(* runs: captures in a directory of chunk files and their comparison       *)
(* (tools/map_vehicle_selection.py), snapshots that follow the profile     *)
(* pointer (tools/run_explore.py), series of dumps (tools/full_diff.py),   *)
(* the garage, watched slot by slot (mc3api/monitor.py), and a listener    *)
(* for races and money (tools/listen.py).                                  *)
(*                                                                         *)
(* Every chunk is a read of its own and the game writes between them.      *)
(***************************************************************************)
EXTENDS Integers, SequencesExt

CONSTANTS
    Size,          \* words of memory: 0..(Size - 1); word 0 is the profile pointer
    Chunk,         \* words read at a time
    Cap,           \* words of a region a snapshot keeps at most
    Profiles,      \* where the profile may be
    Fallback,      \* where it is taken to be if the pointer is not plausible
    Free,          \* words the game writes, by the kind of runs; 0 is for snapshots
    Values,        \* what it writes to them
    Names,         \* names captures are given
    Prefix,        \* Names -> what stands before the first "-" of each
    Ranges,        \* what the user asks to be captured: sets of <<lo, hi>>
    Regions,       \* what a snapshot reads: <<region, first word, size>>
    Labels,        \* names snapshots are given
    GarageSlots,   \* the words of the garage, in a sequence
    Heard,         \* those of the listener: money, players left, status, place
    FreeRoam,      \* players left when no race is on
    Over,          \* the status of a race that is over
    MaxChanges,    \* rows of a snapshot's comparison
    DiffRows,      \* rows of a comparison of two captures
    TopRows,       \* rows of one of several
    Heap, Statics, \* words whose address is worth two points, and one
    Snaps,         \* dumps of a series
    MaxWrites,     \* bound: writes of the game, by the kind of runs
    MaxFails,      \* bound: reads that fail
    MaxRuns        \* bound: captures, snapshots, series... begun, by their kind

Words == 0..(Size - 1)
ASSUME MemoryAssumption ==
    /\ Size \in Nat /\ Chunk \in Nat \ {0} /\ Cap \in Nat \ {0}
    /\ Profiles \cup (UNION Range(Free)) \cup {Fallback} \subseteq Words \ {0}
    /\ Profiles # {} /\ Values \subseteq Nat /\ FreeRoam \in Nat
    /\ IsFiniteSet(Names) /\ Names \cap Labels = {}
    /\ Ranges \subseteq Seq(Nat \X Nat)
    /\ {MaxChanges, DiffRows, TopRows, Snaps} \subseteq Nat
    /\ GarageSlots \in Seq(Words) /\ Heard \in Seq(Words) /\ Len(Heard) = 4
    /\ Regions \in Seq(STRING \X Nat \X Nat)
    /\ \A i, j \in DOMAIN Regions : Regions[i][1] = Regions[j][1] => i = j

VARIABLES
    game,          \* the memory
    files,         \* what has been written of it
    prog,          \* the program that reads it, if one runs
    truth,         \* of each completed name: the words that stood still meanwhile
    bounds         \* writes, failures and runs so far, and the kind of the runs

captureVars == <<game, files, prog, truth, bounds>>

Idle == [kind |-> "none"]
Nothing == <<>>                  \* no file, or bytes that could not be read

CaptureInit ==
    /\ game = [w \in Words |-> IF w = 0 THEN Min(Profiles) ELSE 0]
    /\ files = [captures |-> [n \in Names |-> Nothing],
                snapshots |-> [l \in Labels |-> Nothing],
                dumps |-> <<>>, diffs |-> <<>>, garage |-> Nothing, heard |-> Nothing]
    /\ prog = Idle
    /\ truth = [n \in Names \cup Labels |-> Nothing]
    /\ bounds \in [writes : {0}, fails : {0}, runs : {0}, kind : DOMAIN Free]

Bytes(from, n) == [i \in 1..n |-> game[from + i - 1]]
\* The read may fail, and then nothing is kept.
Reading(from, n) == {Bytes(from, n), Nothing}
Least(a, b) == IF a < b THEN a ELSE b
InOrder(S) == CHOOSE seq \in [1..Cardinality(S) -> S] :
                 \A i, j \in 1..Cardinality(S) : i < j => seq[i] < seq[j]
Put(f, key, value) ==
    [k \in DOMAIN f \cup {key} |-> IF k = key THEN value ELSE f[k]]

\* Bound: a behaviour has runs of one kind; the kinds share no file.
Begin(kind, name, todo) ==
    /\ prog = Idle
    /\ bounds.kind = kind /\ bounds.runs < MaxRuns[kind]
    /\ bounds' = [bounds EXCEPT !.runs = @ + 1]
    /\ prog' = [kind |-> kind, name |-> name, todo |-> todo, got |-> Nothing,
                at |-> 0, steady |-> Words, prev |-> Nothing, step |-> "read"]

Got(key, bytes) ==
    /\ prog' = [prog EXCEPT !.todo = Tail(@), !.got = Put(@, key, bytes)]
    /\ bytes = Nothing => bounds.fails < MaxFails
    /\ bounds' = [bounds EXCEPT !.fails = @ + IF bytes = Nothing THEN 1 ELSE 0]

End == prog' = Idle
Known == [w \in prog.steady |-> game[w]]

Abort ==
    /\ prog # Idle /\ End
    /\ UNCHANGED <<game, files, truth, bounds>>
-----------------------------------------------------------------------------
(* map_vehicle_selection.py: a file per chunk, written as soon as it is    *)
(* read; what an earlier capture of the name has left there stays.         *)

Pieces(lo, hi) ==
    LET bases == InOrder({b \in lo..(hi - 1) : (b - lo) % Chunk = 0})
    IN [i \in DOMAIN bases |-> <<bases[i], Least(Chunk, hi - bases[i])>>]

StartCapture(name, r) ==
    /\ Begin("capture", name, FlattenSeq([i \in DOMAIN r |-> Pieces(r[i][1], r[i][2])]))
    /\ truth' = [truth EXCEPT ![name] = Nothing]
    /\ UNCHANGED <<game, files>>

WriteChunk ==
    /\ prog.kind = "capture" /\ prog.todo # <<>>
    /\ LET p == Head(prog.todo) IN
       files' = [files EXCEPT !.captures[prog.name] = Put(@, p[1], Bytes(p[1], p[2]))]
    /\ prog' = [prog EXCEPT !.todo = Tail(@), !.got = Append(@, Head(prog.todo)[1])]
    /\ UNCHANGED <<game, truth, bounds>>

\* meta.json comes last, and nothing looks for it.
EndCapture ==
    /\ prog.kind = "capture" /\ prog.todo = <<>> /\ End
    /\ truth' = [truth EXCEPT ![prog.name] =
          IF DOMAIN files.captures[prog.name] = ToSet(prog.got) THEN Known ELSE Nothing]
    /\ UNCHANGED <<game, files, bounds>>

CommonBases(names) ==
    LET of(n) == DOMAIN files.captures[n]
    IN {b \in UNION {of(n) : n \in names} :
          \A n, m \in names : /\ b \in of(n)
                              /\ Len(files.captures[n][b]) = Len(files.captures[m][b])}
Compared(names) ==
    UNION {{b + i - 1 : i \in 1..Len(files.captures[CHOOSE n \in names : TRUE][b])} :
              b \in CommonBases(names)}
InFile(n, w) ==
    LET b == CHOOSE b \in DOMAIN files.captures[n] : w \in b..(b + Len(files.captures[n][b]) - 1)
    IN files.captures[n][b][w - b + 1]

\* What the values of a word are worth: small ones, flags, near ones, its address.
Score(w, values, flag) ==
    (IF \A v \in values : v < 256 THEN 5 ELSE 0) + flag
        + (IF Max(values) - Min(values) <= 20 THEN 2 ELSE 0)
        + (IF w \in Heap THEN 2 ELSE 0) + (IF w \in Statics THEN 1 ELSE 0)

\* The order of the rows, where worth is a function of their words.
Precedes(worth, v, w) ==
    \/ worth[v] > worth[w]
    \/ worth[v] = worth[w] /\ v < w

\* mutant: rows are cut off before they are sorted
FirstRows_Unsorted(rows, worth, limit) ==
    {w \in rows : Cardinality({v \in rows : v < w}) < limit}

\* rows[:limit], once they are sorted.
FirstRows(rows, worth, limit) ==
    {w \in rows : Cardinality({v \in rows : Precedes(worth, v, w)}) < limit}

ValuesIn(names, w) == {InFile(n, w) : n \in names}
Differing(names) == {w \in Compared(names) : Cardinality(ValuesIn(names, w)) > 1}

\* diff: a row worth nothing is not reported.
DiffWorth(before, after) ==
    [w \in Differing({before, after}) |->
        LET values == ValuesIn({before, after}, w)
        IN Score(w, values, IF values \subseteq 0..2 THEN 5 ELSE 0)]
DiffCandidates(before, after) ==
    LET worth == DiffWorth(before, after) IN {w \in DOMAIN worth : worth[w] > 0}
Diff(before, after) ==
    FirstRows(DiffCandidates(before, after), DiffWorth(before, after), DiffRows)

GroupSplit(values, groups) ==
    /\ Cardinality(groups) >= 2
    /\ \A g \in groups : Cardinality({values[n] : n \in g}) = 1
    /\ Cardinality({values[n] : n \in UNION groups}) > 1

PrefixGroups(names) == {{n \in names : Prefix[n] = Prefix[m]} : m \in names}
Splits(names, w) == GroupSplit([n \in names |-> InFile(n, w)], PrefixGroups(names))

\* ndiff, grouped by prefixes: those that split the groups first, then by score,
\* the fewer values the better; all of them, or only the former.
Most == Cardinality(Names) + 1
NDiffWorth(names) ==
    [w \in Differing(names) |->
        LET values == ValuesIn(names, w)
            flag == IF values \subseteq 0..1 THEN 8 ELSE IF values \subseteq 0..2 THEN 6 ELSE 0
            split == IF Splits(names, w) THEN 30 ELSE 0
        IN Most * (Score(w, values, flag + split) + 1) - Cardinality(values)]
NDiffCandidates(names, only) ==
    {w \in Differing(names) : only => Splits(names, w)}
NDiff(names, only) ==
    FirstRows(NDiffCandidates(names, only), NDiffWorth(names), TopRows)
-----------------------------------------------------------------------------
(* run_explore.py: one file at the end.  The profile is read where the     *)
(* pointer says, and the pointer is read again for the file.               *)

StartSnapshot(label) ==
    /\ Begin("snapshot", label, Regions)
    /\ UNCHANGED <<game, files, truth>>

Plausible(p) == p \in Words \ {0}

FollowPointer ==
    /\ prog.kind = "snapshot" /\ prog.todo # <<>>
    /\ Head(prog.todo)[1] = "profile_data" /\ prog.at = 0
    /\ prog' = [prog EXCEPT !.at = IF Plausible(game[0]) THEN game[0] ELSE Fallback]
    /\ UNCHANGED <<game, files, truth, bounds>>

ReadRegion ==
    /\ prog.kind = "snapshot" /\ prog.todo # <<>>
    /\ LET r == Head(prog.todo)
           from == IF r[1] = "profile_data" THEN prog.at ELSE r[2]
       IN /\ r[1] = "profile_data" => prog.at # 0
          /\ \E bytes \in Reading(from, Least(r[3], Cap)) :
                Got(r[1], bytes)
    /\ UNCHANGED <<game, files, truth>>

\* What a snapshot's file has, and what the comparison reads from it.
Saved == [regions |-> prog.got, ptr |-> game[0]]
Loaded(label) == files.snapshots[label]

SaveSnapshot ==
    /\ prog.kind = "snapshot" /\ prog.todo = <<>> /\ End
    /\ files' = [files EXCEPT !.snapshots[prog.name] = Saved]
    /\ truth' = [truth EXCEPT ![prog.name] = Known]
    /\ UNCHANGED <<game, bounds>>

\* mutant: the profile's rows are counted from the pointer's own region
BaseOf_Static(r, before, after) == r[2]

BaseOf(r, before, after) == IF r[1] = "profile_data" THEN before.ptr ELSE r[2]

\* The addresses of the rows, in the order of the regions, up to the limit.
SnapshotDiff(a, b) ==
    LET before == Loaded(a)
        after == Loaded(b)
        RowsOf(r) ==
            LET old == before.regions[r[1]] new == after.regions[r[1]]
                changed == {i \in DOMAIN old : Len(old) = Len(new) /\ old[i] # new[i]}
            IN [i \in 1..Cardinality(changed) |->
                  BaseOf(r, before, after) - 1 + InOrder(changed)[i]]
        rows == FlattenSeq([i \in DOMAIN Regions |-> RowsOf(Regions[i])])
    IN SubSeq(rows, 1, Least(Len(rows), MaxChanges))
-----------------------------------------------------------------------------
(* full_diff.py: a series of dumps, chunks that cannot be read left empty,  *)
(* and what changed from each to the next, in files of their own that a     *)
(* later series of the label writes over.  Each file is marked with the run *)
(* that wrote it; the marks are history.                                   *)

StartSeries ==
    /\ Begin("dump", "dump", Pieces(0, Size))
    /\ UNCHANGED <<game, files, truth>>

DumpChunk ==
    /\ prog.kind = "dump" /\ prog.todo # <<>>
    /\ LET p == Head(prog.todo) IN
       \E bytes \in Reading(p[1], p[2]) : Got(p[1], bytes)
    /\ UNCHANGED <<game, files, truth>>

SaveDump ==
    /\ prog.kind = "dump" /\ prog.todo = <<>> /\ prog.step = "read"
    /\ files' = [files EXCEPT !.dumps = Put(@, prog.at, [run |-> bounds.runs, chunks |-> prog.got])]
    /\ prog' = [prog EXCEPT !.step = "compare"]
    /\ UNCHANGED <<game, truth, bounds>>

\* mutant: only the first word of a chunk that differs is found
Changes_First(prev, curr) ==
    {<<b, 1, curr[b][1]>> : b \in {b \in DOMAIN prev : /\ Nothing \notin {prev[b], curr[b]}
                                                     /\ prev[b][1] # curr[b][1]}}

Changes(prev, curr) ==
    UNION {{<<b, i, curr[b][i]>> : i \in {i \in DOMAIN prev[b] \cap DOMAIN curr[b] :
                                            prev[b][i] # curr[b][i]}} : b \in DOMAIN prev}

\* The difference to the dump before, if there was one in this series; and on.
SaveChanges ==
    /\ prog.kind = "dump" /\ prog.step = "compare"
    /\ files' = [files EXCEPT !.diffs =
          IF prog.prev = Nothing THEN @
          ELSE Put(@, prog.at, [run |-> bounds.runs, rows |-> Changes(prog.prev, prog.got)])]
    /\ prog' = IF prog.at + 1 >= Snaps THEN Idle
               ELSE [prog EXCEPT !.todo = Pieces(0, Size), !.got = Nothing, !.at = @ + 1,
                                 !.prev = prog.got, !.step = "read"]
    /\ UNCHANGED <<game, truth, bounds>>
-----------------------------------------------------------------------------
(* monitor.py: the owned vehicles, pass after pass, and a line for what is *)
(* different from the pass before.  A slot that is empty holds 0.          *)

StartMonitor ==
    /\ Begin("monitor", "garage", GarageSlots)
    /\ files' = [files EXCEPT !.garage = Nothing]
    /\ UNCHANGED <<game, truth>>

ReadSlot ==
    /\ prog.kind = "monitor" /\ prog.todo # <<>>
    /\ prog' = [prog EXCEPT !.todo = Tail(@), !.got = Append(@, game[Head(prog.todo)])]
    /\ UNCHANGED <<game, files, truth, bounds>>

Owned(slots) == Range(slots) \ {0}

Line_Bought(last, now) == [added |-> now \ last, removed |-> {}]   \* mutant

Line(last, now) == [added |-> now \ last, removed |-> last \ now]

\* The first pass is the baseline; every later one starts the next.
EndPass ==
    /\ prog.kind = "monitor" /\ prog.todo = <<>>
    /\ LET now == Owned(prog.got)
           log == files.garage
       IN files' = [files EXCEPT !.garage =
             IF log = Nothing THEN [first |-> now, last |-> now, lines |-> <<>>]
             ELSE IF now = log.last THEN log
             ELSE [log EXCEPT !.last = now, !.lines = Append(@, Line(log.last, now))]]
    /\ prog' = [prog EXCEPT !.todo = GarageSlots, !.got = Nothing, !.steady = Words]
    /\ UNCHANGED <<game, truth, bounds>>
-----------------------------------------------------------------------------
(* listen.py: four words, poll after poll, and an event for each change.   *)

StartListening ==
    /\ Begin("listener", "events", Heard)
    /\ files' = [files EXCEPT !.heard = Nothing]
    /\ UNCHANGED <<game, truth>>

Hear ==
    /\ prog.kind = "listener" /\ prog.todo # <<>>
    /\ prog' = [prog EXCEPT !.todo = Tail(@), !.got = Append(@, game[Head(prog.todo)])]
    /\ UNCHANGED <<game, files, truth, bounds>>

\* What a listener remembers: when it begins, free roam counts as a race.
\* polls (none yet, or some) is history.
Baseline(now) == [first |-> now[1], last |-> now, racing |-> now[2] <= FreeRoam,
                  events |-> <<>>, polls |-> 0]

When(condition, event) == IF condition THEN <<event>> ELSE <<>>

Polled(log, now) ==
    LET racing == now[2] < FreeRoam
        Changed(i) == now[i] # log.last[i]
    IN [log EXCEPT
          !.last = now, !.racing = racing, !.polls = 1,
          !.events = @ \o When(Changed(1), <<"money", now[1] - log.last[1]>>)
                       \o When(racing /\ ~log.racing, <<"race_start", 0>>)
                       \o When(Changed(3) /\ now[3] = Over, <<"race_finish", now[4]>>)
                       \o When(Changed(4) /\ racing, <<"position", now[4]>>)]

EndPoll ==
    /\ prog.kind = "listener" /\ prog.todo = <<>>
    /\ files' = [files EXCEPT !.heard =
          IF @ = Nothing THEN Baseline(prog.got) ELSE Polled(@, prog.got)]
    /\ prog' = [prog EXCEPT !.todo = Heard, !.got = Nothing, !.steady = Words]
    /\ UNCHANGED <<game, truth, bounds>>
-----------------------------------------------------------------------------
\* The game; bytes of a word it writes are no longer sure to be as they were.
Play(w, v) ==
    /\ bounds.writes < MaxWrites[bounds.kind] /\ game[w] # v
    /\ game' = [game EXCEPT ![w] = v]
    /\ prog' = IF prog = Idle THEN Idle ELSE [prog EXCEPT !.steady = @ \ {w}]
    /\ bounds' = [bounds EXCEPT !.writes = @ + 1]
    /\ UNCHANGED <<files, truth>>

CaptureNext ==
    \/ \E n \in Names, r \in Ranges : StartCapture(n, r)
    \/ WriteChunk \/ EndCapture
    \/ \E l \in Labels : StartSnapshot(l)
    \/ FollowPointer \/ ReadRegion \/ SaveSnapshot
    \/ StartSeries \/ DumpChunk \/ SaveDump \/ SaveChanges
    \/ StartMonitor \/ ReadSlot \/ EndPass
    \/ StartListening \/ Hear \/ EndPoll
    \/ Abort
    \/ \E w \in Free[bounds.kind], v \in Values : Play(w, v)
    \/ bounds.kind = "snapshot" /\ \E p \in Profiles \cup {0} : Play(0, p)

CaptureSpec == CaptureInit /\ [][CaptureNext]_captureVars
-----------------------------------------------------------------------------
(* Words that stood still while each of the captures was taken.            *)
Steady(names) == {w \in Words : \A n \in names : w \in DOMAIN truth[n]}

(* The comparison of captures tells the truth about every word the game    *)
(* did not write while one of them was being taken.  A word that diff, or   *)
(* the n-way comparison, reports did differ between them, and it splits the *)
(* groups if it is reported as one that does.  A word that differed, scores *)
(* and, if only such words are wanted, splits the groups, is reported,      *)
(* unless the report is full and each of its rows ranks before that word.   *)
(* A name captured again over narrower ranges promises nothing: chunks of  *)
(* the earlier capture are still there.                                    *)
ReportsAll(wanted, report, worth, limit) ==
    \A w \in wanted \ report :
       Cardinality(report) = limit /\ \A v \in report : Precedes(worth, v, w)
ComparisonIsReal ==
    \A names \in {ns \in SUBSET {n \in Names : truth[n] # Nothing} : Cardinality(ns) > 1} :
       LET sure == Steady(names) \cap Compared(names)
           differ(w) == \E n, m \in names : truth[n][w] # truth[m][w]
           apart(w) == \A n, m \in names : Prefix[n] = Prefix[m] => truth[n][w] = truth[m][w]
       IN /\ \A only \in BOOLEAN :
                LET meant == {w \in sure : differ(w) /\ (only => apart(w))} IN
                /\ NDiff(names, only) \cap sure \subseteq meant
                /\ ReportsAll(meant, NDiff(names, only), NDiffWorth(names), TopRows)
          /\ Cardinality(names) = 2 => \A n \in names : \A m \in names \ {n} :
                LET worth == DiffWorth(n, m)
                    scoring == {w \in sure : differ(w) /\ worth[w] > 0}
                IN /\ Diff(n, m) \cap sure \subseteq scoring
                   /\ ReportsAll(scoring, Diff(n, m), worth, DiffRows)

(* A snapshot's comparison names words that changed, if the profile stayed *)
(* where it is: neither moved nor without a plausible pointer.             *)
SnapshotRowsAreReal ==
    \A a, b \in {l \in Labels : truth[l] # Nothing} :
       (/\ 0 \in Steady({a, b}) /\ truth[a][0] = truth[b][0] /\ Plausible(truth[a][0]))
       => \A i \in DOMAIN SnapshotDiff(a, b) :
             LET w == SnapshotDiff(a, b)[i] IN
             w \in Steady({a, b}) => truth[a][w] # truth[b][w]

(* However often a series is broken off and begun again over the files of  *)
(* the ones before: of the dumps the last of them wrote, only the newest can *)
(* lack its difference, and the differences, applied to the first of them,  *)
(* give every dump up to there, as long as every chunk could be read: the   *)
(* last difference that names a word gives what it holds.  (What changed    *)
(* around a chunk that could not be read once is in no difference.)         *)
InSeries(i) ==
    i \in DOMAIN files.dumps /\ \A j \in 0..i : /\ j \in DOMAIN files.dumps
                                               /\ files.dumps[j].run = files.dumps[0].run
HasChanges(i) == i \in DOMAIN files.diffs /\ files.diffs[i].run = files.dumps[0].run
Naming(b, i, upto) == {k \in 1..upto : \E c \in files.diffs[k].rows : c[1] = b /\ c[2] = i}
Applied(b, i, upto) ==
    IF Naming(b, i, upto) = {} THEN files.dumps[0].chunks[b][i]
    ELSE (CHOOSE c \in files.diffs[Max(Naming(b, i, upto))].rows : c[1] = b /\ c[2] = i)[3]
SeriesIsComplete ==
    \A last \in {i \in DOMAIN files.dumps : InSeries(i)} :
       /\ \A k \in 1..(last - 1) : HasChanges(k)
       /\ last = 0 \/ HasChanges(last) =>
             \A b \in {b \in Words : \A i \in 0..last :
                           /\ b \in DOMAIN files.dumps[i].chunks
                           /\ files.dumps[i].chunks[b] # Nothing} :
                [i \in DOMAIN files.dumps[0].chunks[b] |-> Applied(b, i, last)]
                   = files.dumps[last].chunks[b]

(* What the two watchers print adds up.  A vehicle that moves between       *)
(* slots while they are read may be reported gone and back, or not at all; *)
(* but after a pass that the game did not disturb, the lines of the        *)
(* garage, replayed over the one the monitor began with, give the vehicles *)
(* that are owned.  The listener's money events, added to what it began    *)
(* with, give the money.  And such a poll announces a race exactly if the   *)
(* player is in one and the listener last saw free roam or more players,    *)
(* or, on its first poll after the baseline, more: the race that follows    *)
(* the free roam it began with is missed.                                  *)
Replayed(log) ==
    LET naming(v) == {k \in DOMAIN log.lines :
                         v \in log.lines[k].added \cup log.lines[k].removed}
    IN {v \in log.first \cup UNION {log.lines[k].added : k \in DOMAIN log.lines} :
          IF naming(v) = {} THEN v \in log.first
                            ELSE v \in log.lines[Max(naming(v))].added}
Told(log, name) == {k \in DOMAIN log.events : log.events[k][1] = name}
Total(log) ==
    FoldLeft(LAMBDA sum, e : sum + IF e[1] = "money" THEN e[2] ELSE 0, log.first, log.events)
LogsCatchUp ==
    [][/\ (EndPass /\ Range(GarageSlots) \subseteq prog.steady) =>
             Replayed(files'.garage) =
                Owned([i \in DOMAIN GarageSlots |-> game[GarageSlots[i]]])
       /\ (EndPoll /\ Range(Heard) \subseteq prog.steady) =>
             LET log == files.heard log2 == files'.heard IN
             /\ Total(log2) = game[Heard[1]]
             /\ log # Nothing =>
                   (Told(log2, "race_start") # Told(log, "race_start")
                      <=> /\ game[Heard[2]] < FreeRoam
                          /\ log.last[2] >= FreeRoam
                          /\ log.polls = 0 => log.last[2] > FreeRoam)]_captureVars
=============================================================================
