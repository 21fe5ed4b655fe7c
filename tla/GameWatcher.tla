----------------------------- MODULE GameWatcher -----------------------------
(***************************************************************************)
(* How the client sees the game: GameWatcher.poll_once (mc3api/events.py)  *)
(* compares the wallet and the stats catalog (mc3api/stats.py) with those  *)
(* of the last poll, check_mapper.py turns the differences into checks,    *)
(* and MC3ApiRuntime.apply_money_total (mc3api_runtime.py) writes the      *)
(* wallet.  Each is several memory accesses, and the game, which runs on,  *)
(* writes a result one value at a time in an order the client cannot know. *)
(*                                                                         *)
(* A counter is 0 while the catalog has no entry for it: the game inserts  *)
(* an entry with its first value.  The purchase ring that poll_once drains *)
(* last is module PurchaseRing.                                            *)
(***************************************************************************)
EXTENDS Integers, Sequences, FiniteSetsExt, Functions

CONSTANTS
    Routes,      \* route ids
    Cities,      \* city ids
    Prize,       \* what a won race pays
    Amount,      \* what a purchase costs
    MaxMoves,    \* bound: things the player does
    MaxFloor     \* bound: AP money granted

ASSUME IdsAssumption == Routes \subseteq Nat /\ Cities \subseteq 0..7
ASSUME MoneyAssumption == Prize \in Nat \ {0} /\ Amount \in Nat \ {0}
ASSUME MovesAssumption == MaxMoves \in Nat /\ MaxFloor \in Nat

VARIABLES
    \* game
    money, stats,         \* the wallet; the values the catalog lists
    readable,             \* does the catalog pointer point at a catalog?
    left, target,         \* values of a result not yet written, and all after it
    moves,
    \* MC3ApiRuntime and its GameWatcher
    access,               \* between polls (idle), or inside one of the two
    primed,               \* is there a _last_stats?
    last_money, last_stats,
    injected,             \* _injected_money
    money_read,           \* poll_once's money, or the first read of apply
    floor, gap,           \* _money_floor; apply's injected
    found, spent,         \* what the last poll reported
    \* history
    recent, paid,         \* moves, and money spent, since the last poll
    clean, smudge,        \* were the last two reads clean; did the game act
                          \* while the client was at it
    strange, touched      \* did the last poll read no catalog, or another
                          \* profile's; routes finished in this profile since
                          \* it was loaded or the client started

profile == <<money, stats, readable, left, target, moves>>
baseline == <<primed, last_money, last_stats>>
report == <<found, spent>>
history == <<recent, paid, clean, smudge, strange, touched>>
watcherVars == <<profile, access, baseline, injected, money_read, floor, gap,
                 report, history>>
-----------------------------------------------------------------------------
Counters == [wins : Nat, earnings : Nat, tournaments : Nat, total : Nat,
             best : [Routes -> Nat], city : [Cities -> Nat]]
NoStats == [wins |-> 0, earnings |-> 0, tournaments |-> 0, total |-> 0,
            best |-> [r \in Routes |-> 0], city |-> [c \in Cities |-> 0]]

Slow == 2
Fast == 1

WatcherTypeOK ==
    /\ money \in Int
    /\ stats \in Counters /\ target \in Counters
    /\ readable \in {"no", "yes"}
    /\ left \subseteq {"money", "wins", "earnings", "tournaments", "total",
                       "best", "city"}
    /\ moves \in 0..MaxMoves
    /\ access \in {"idle", "stats", "gap", "write"}
    /\ primed \in {"no", "yes"}
    /\ last_money \in Int /\ last_stats \in Counters
    /\ injected \in Int /\ money_read \in Int
    /\ floor \in 0..MaxFloor /\ gap \in Int
    /\ \A k \in found : /\ k[1] \in {"route", "collectible", "tournament"}
                        /\ k[2] \in {-1} \cup Nat /\ k[3] \in Nat
    /\ spent \in Nat
    /\ paid \in Nat
    /\ {clean, smudge, strange} \subseteq {"no", "yes"}
    /\ touched \subseteq Routes

\* A profile that may have finished some routes, and no earnings left.
Profile(b, w) == [NoStats EXCEPT !.best = b, !.wins = w]
Profiles == {Profile(b, w) : b \in [Routes -> {0, Slow}], w \in {0, 1}}

WatcherInit ==
    /\ money = 2
    /\ stats \in Profiles
    /\ readable \in {"no", "yes"}
    /\ left = {} /\ target = stats /\ moves = 0
    /\ access = "idle" /\ primed = "no"
    /\ last_money = 0 /\ last_stats = NoStats
    /\ injected = 0 /\ money_read = 0 /\ floor = 0 /\ gap = 0
    /\ found = {} /\ spent = 0
    /\ recent = <<>> /\ paid = 0
    /\ clean = "no" /\ smudge = "no" /\ strange = "no" /\ touched = {}
-----------------------------------------------------------------------------
(* The game.                                                               *)
client == <<access, baseline, injected, money_read, floor, gap, report>>

Smudged == IF access = "idle" THEN smudge ELSE "yes"

\* The player achieves something: its values are written one by one.
Result(move, after, writes) ==
    /\ left = {}
    /\ readable = "yes"
    /\ moves < MaxMoves
    /\ moves' = moves + 1
    /\ target' = after
    /\ left' = writes
    /\ recent' = Append(recent, move)
    /\ smudge' = Smudged
    /\ UNCHANGED <<money, stats, readable, client, paid, clean, strange>>

FinishRace(r, place, time) ==
    LET better == stats.best[r] = 0 \/ time < stats.best[r]
        best == IF better THEN [stats.best EXCEPT ![r] = time] ELSE stats.best
        won == place = 1
    IN /\ Result([move |-> "race", won |-> won, better |-> better, id |-> r],
                 IF won THEN [stats EXCEPT !.best = best, !.wins = @ + 1,
                                           !.earnings = @ + Prize]
                        ELSE [stats EXCEPT !.best = best],
                 (IF better THEN {"best"} ELSE {}) \cup
                 (IF won THEN {"wins", "earnings", "money"} ELSE {}))
       /\ touched' = touched \cup {r}

Collect(c) ==
    /\ Result([move |-> "collect", won |-> FALSE, better |-> FALSE, id |-> c],
              [stats EXCEPT !.total = @ + 1, !.city[c] = @ + 1],
              {"total", "city"})
    /\ UNCHANGED touched

WinTournament ==
    /\ Result([move |-> "tournament", won |-> TRUE, better |-> FALSE,
               id |-> 0],
              [stats EXCEPT !.tournaments = @ + 1], {"tournaments"})
    /\ UNCHANGED touched

WriteValue(f) ==
    /\ f \in left
    /\ left' = left \ {f}
    /\ IF f = "money" THEN money' = money + Prize /\ UNCHANGED stats
                      ELSE stats' = [stats EXCEPT ![f] = target[f]]
                           /\ UNCHANGED money
    /\ smudge' = Smudged
    /\ UNCHANGED <<readable, target, moves, client, recent, paid, clean,
                   strange, touched>>

Spend ==
    /\ moves < MaxMoves
    /\ money >= Amount
    /\ moves' = moves + 1
    /\ money' = money - Amount
    /\ paid' = paid + Amount
    /\ recent' = Append(recent, [move |-> "spend", won |-> FALSE,
                                 better |-> FALSE, id |-> 0])
    /\ smudge' = Smudged
    /\ UNCHANGED <<stats, readable, left, target, client, clean, strange,
                   touched>>

\* The catalog is left and comes back: meanwhile its pointer is none.
TurnCatalog ==
    /\ left = {}
    /\ readable' = IF readable = "yes" THEN "no" ELSE "yes"
    /\ smudge' = Smudged
    /\ UNCHANGED <<money, stats, left, target, moves, client, recent, paid,
                   clean, strange, touched>>

\* Another profile, or a savestate, takes the place of this one at any time.
LoadProfile ==
    /\ moves < MaxMoves
    /\ moves' = moves + 1
    /\ money' \in {0, 2}
    /\ stats' \in Profiles /\ target' = stats' /\ left' = {}
    /\ readable' = "yes"
    /\ smudge' = Smudged /\ clean' = "no" /\ strange' = "yes"
    /\ recent' = <<>> /\ paid' = 0 /\ touched' = {}
    /\ UNCHANGED client
-----------------------------------------------------------------------------
(* poll_once: the wallet, then the catalog and all that follows from it.   *)

PollMoney ==
    /\ access = "idle"
    /\ money_read' = money
    /\ found' = {} /\ spent' = 0
    /\ access' = "stats"
    /\ UNCHANGED <<profile, baseline, injected, floor, gap, history>>

\* StatsCatalog.refresh: no entries when the pointer is out of range.
Snapshot == IF readable = "yes" THEN stats ELSE NoStats

\* One of the first eight cities whose count differs, or -1.
ChangedCity(snap) ==
    IF \E c \in Cities : snap.city[c] # last_stats.city[c]
    THEN Min({c \in Cities : snap.city[c] # last_stats.city[c]})
    ELSE -1

\* map_event_to_checks of the events of a poll.
Won_Always(snap) == TRUE               \* mutant: any finished route
Won(snap) == snap.wins > last_stats.wins
RouteChecks(snap) ==
    {<<"route", r, 0>> : r \in {q \in Routes :
        Won(snap) /\ snap.best[q] \notin {0, last_stats.best[q]}}}
CollectibleChecks(snap) ==
    IF snap.total \in {0, last_stats.total} THEN {}
    ELSE {<<"collectible", ChangedCity(snap),
            SumFunctionOnSet(snap.city, Cities)>>}
TournamentChecks(snap) ==
    IF snap.tournaments \in {0, last_stats.tournaments} THEN {}
    ELSE {<<"tournament", snap.tournaments, 0>>}

HasBaseline_Always == TRUE             \* mutant: compares with nothing at first
HasBaseline == primed = "yes"
Checks(snap) ==
    IF HasBaseline
    THEN RouteChecks(snap) \cup CollectibleChecks(snap)
            \cup TournamentChecks(snap)
    ELSE {}

\* PurchaseDetected: the wallet fell by more than earnings explain.
WalletDelta_Raw ==                     \* mutant: counts injected money
    money_read - last_money
WalletDelta == (money_read - last_money) - injected
Spent(snap) ==
    IF HasBaseline
    THEN Max({0, (snap.earnings - last_stats.earnings) - WalletDelta})
    ELSE 0

PollStats ==
    LET settled == smudge = "no" /\ readable = "yes" /\ left = {} IN
    /\ access = "stats"
    /\ found' = Checks(Snapshot)
    /\ spent' = Spent(Snapshot)
    /\ injected' = 0
    /\ last_stats' = Snapshot
    /\ last_money' = money_read
    /\ money_read' = 0
    /\ primed' = "yes"
    /\ access' = "idle"
    /\ clean' = IF settled THEN "yes" ELSE "no"
    /\ strange' = IF readable = "yes" THEN "no" ELSE "yes"
    /\ recent' = <<>> /\ paid' = 0 /\ smudge' = "no"
    /\ UNCHANGED <<profile, floor, gap, touched>>
-----------------------------------------------------------------------------
(* apply_money_total: read, read again, write.                             *)

Floor(total) == Max({floor, total})

TooPoor(total) == money < Floor(total)

ApplyTotal(total) ==
    /\ access = "idle"
    /\ primed = "yes"
    /\ floor' = Floor(total)
    /\ access' = IF TooPoor(total) THEN "gap" ELSE "idle"
    /\ UNCHANGED <<profile, baseline, injected, money_read, gap, report,
                   history>>

ReadGap ==
    /\ access = "gap"
    /\ gap' = floor - money
    /\ access' = "write"
    /\ UNCHANGED <<profile, baseline, injected, money_read, floor, report,
                   history>>

\* The setter's max(0, value) does nothing: a floor is not negative.
WriteWallet ==
    /\ access = "write"
    /\ money' = floor
    /\ injected' = injected + gap
    /\ gap' = 0
    /\ access' = "idle"
    /\ UNCHANGED <<stats, readable, left, target, moves, baseline,
                   money_read, floor, report, history>>
-----------------------------------------------------------------------------
Player ==
    \/ \E r \in Routes, place \in {1, 2}, time \in {Slow, Fast} :
          FinishRace(r, place, time)
    \/ \E c \in Cities : Collect(c)
    \/ WinTournament \/ Spend \/ TurnCatalog \/ LoadProfile

WatcherNext ==
    \/ Player
    \/ \E f \in left : WriteValue(f)
    \/ PollMoney \/ PollStats
    \/ \E total \in 0..MaxFloor : ApplyTotal(total)
    \/ ReadGap \/ WriteWallet

WatcherSpec == WatcherInit /\ [][WatcherNext]_watcherVars
-----------------------------------------------------------------------------
\* The poll about to return compares two catalogs and wallets of one profile,
\* which the game left alone while they were read.
Undisturbed ==
    access = "stats" /\ clean = "yes" /\ smudge = "no" /\ readable = "yes"
       /\ left = {}

(* When the game leaves both reads alone, the poll reports what the player  *)
(* did between them, in the order nobody wrote a test for: the routes whose *)
(* time improved, if a race was won at all (also those that were lost:      *)
(* events.py:158); the newest tournament; and of any number of logos one,   *)
(* of the first city with a new one.  Its number is the city's own, which   *)
(* check_mapper.py:9 and docs/api.md:95 have in mind, only as long as no    *)
(* other city has a logo: city_count is the count over all cities.          *)
DueRoutes ==
    IF \E m \in Range(recent) : m.move = "race" /\ m.won
    THEN {<<"route", m.id, 0>> : m \in {n \in Range(recent) : n.better}}
    ELSE {}
DueTournaments ==
    IF \E m \in Range(recent) : m.move = "tournament"
    THEN {<<"tournament", stats.tournaments, 0>>}
    ELSE {}
Visited == {m.id : m \in {n \in Range(recent) : n.move = "collect"}}
LogoDue(k) ==
    /\ k[1] = "collectible" /\ k[2] = Min(Visited)
    /\ (\A c \in Cities \ {k[2]} : stats.city[c] = 0) => k[3] = stats.city[k[2]]

PollReportsMoves ==
    [][(PollStats /\ Undisturbed) =>
          \E logos \in SUBSET found' :
             /\ found' = DueRoutes \cup DueTournaments \cup logos
             /\ Cardinality(logos) = IF Visited = {} THEN 0 ELSE 1
             /\ \A k \in logos : LogoDue(k)]_watcherVars

(* "applying an AP money item is never mistaken for (or masks) a purchase": *)
(* if the game leaves the client's accesses alone, the polls report what    *)
(* was spent to the dollar, whatever was earned or injected meanwhile.      *)
SpendingIsExact == [][(PollStats /\ Undisturbed) => spent' = paid]_watcherVars

(* "so we don't fire checks for pre-existing state": a poll that follows    *)
(* one of the same profile reports no route but those finished in it since  *)
(* the client was started, however a result is spread over the polls.  After *)
(* a poll that found no catalog, or another profile, old routes are         *)
(* reported: the baseline is compared, and not known to be another's.       *)
OnlyNewProgressFires ==
    [][(PollStats /\ strange = "no") =>
          \A k \in found' : k[1] = "route" => k[2] \in touched]_watcherVars
=============================================================================
