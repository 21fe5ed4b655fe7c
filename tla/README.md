# Midnight Club 3 Archipelago client: specifications and proofs

These are TLA+ specifications of the Archipelago integration for Midnight Club 3:
DUB Edition Remix: the client players run, the way it sees and changes a game that
runs in the PCSX2 emulator, what it remembers, and the tools beside it that install
the payload, redirect the game's calls, borrow words of its memory and compare what
they read there. TLC checks them on small
instances; TLAPS proves every safety and action property of the passing runs, and a
refinement, for every value of the constants. Line numbers are those of the repository.

## 1. The system

| Component | State it keeps | Operations | Hard parts |
|---|---|---|---|
| Client loop, `client/mc3ap/runner.py` | `ap_money_total`, `applied_pending` | start, one iteration (poll the server, apply items, poll the game, send checks), end | no reconnection, poll errors swallowed, send errors end the process, nothing persisted |
| Archipelago websocket client, `ap_client_adapter.py`, `ap_protocol.py` | `next_index`, `inventory`, `_sent_checks`, `checked_locations` | connect, poll, send checks, Sync, resend | bundled packets, gaps, full inventory at index 0, a send failing inside a poll |
| Game watcher, `mc3api/events.py`, `stats.py` | last wallet, last catalog, injected money | `poll_once` | several unsynchronised reads of a running game, an unreadable catalog |
| Runtime adapter, `mc3api_runtime.py`, `check_mapper.py` | `_money_floor` | prime, poll checks, `apply_money_total` | read, read again, write, while the game writes too |
| Purchase ring, `mc3api/purchase_hook.py` and the DETECT trampoline of `tools/hook_purchase.py` | ring in game memory, `_seen` | trampoline stores, `drain`, install, restore | two programs share a ring without a lock; wraparound; failing reads |
| Permit table and DENY trampoline, same files | permit bytes, enforce flag, hooked site | `apply`, `allow_all`, the tool's commands, the gated purchase | two processes write table and flag in turn, a running trampoline reads them in turn |
| Hook manager and instrumentation, `mc3api/hooks.py`, `tools/instrument_setcarcfg*.py`, `tools/probe_dealer_display.py` with `mc3api/dealer_display.py`, `tools/build_payload.py` | hooked sites, trampolines, rings, remembered originals | install, restore, the trampolines, the cheats re-applied | a call may be anywhere in a trampoline while its site is patched; trampolines chain |
| Application service, `application/client_service.py` | `ClientState` | `run`, checks, goal, `reconcile_all` | a stop between any two awaits |
| Event store, `adapters/storage/sqlite_event_store.py` | tables | load, record, mark | what a restart finds |
| Received-item service, `application/ap_event_service.py`, `domain/reducer.py` | `ClientState` | append, full inventory | no index test, row by row commits, two views of one inventory |
| Gates, `domain/gates.py`, `reducer.py`, `worlds/mc3/rules.py` | none (pure) | `evaluate_gate`, `reduce_desired_state`, the generator's rule | three evaluators of one rule; more items must never close anything |
| Fake game, `adapters/fake/fake_game_runtime.py` | place, garage, wallet, parts, abilities, desired state | player actions, `set_desired_state`, `reconcile` | grants compete with purchases for slots; the desired state changes under the player |
| Reconciliation check, `application/reconciliation_service.py` | none (pure) | compare a snapshot with a desired state | an empty set means all |
| Fake server, scenario runner | a queue, a script | test fixtures: a script of the fake game's actions | |
| APWorld, `worlds/mc3` | none | generation | runs once |
| Name classification, domain model, catalog | none | | pure data |
| Installer, `install.py` | the payload's file, its backup, `PCSX2.ini` | back up, copy, enable cheats | any step may fail, it is started again; the setting has to land in its section |
| Bridge and the tools' own links, `mc3api/bridge.py`, `tools/mc3_api.py`, `run_explore.py`, `probe_memory.py`, `live_inject.py` | process, address of the mailbox | scan, read, write | five scanners with limits of their own; the emulator protects pages and may end; links are never renewed |
| Writing tools, `mc3api/dealer.py`, `tools/pulse_dealer_lock.py`, `probe_vehicle_locks.py`, `map_vehicle_selection.py`, `action_driver.py`, `live_inject.py` | the words they replaced | write, hold, put back | two tools, the game and a reboot write the same words |
| Captures and comparisons, `map_vehicle_selection.py`, `run_explore.py`, `full_diff.py` | chunk files, snapshots, dumps | capture, diff, n-way diff | memory is read piece by piece while the game runs |
| Live monitor and listener, `mc3api/monitor.py`, `game.py`, `tools/listen.py` | what the last poll saw | poll, print | words of one poll are of different moments |
| Assembler and code scanners, `tools/mips_assembler.py`, `mips_disasm.py`, `static_xref.py`, `mips_scanner.py` | a program and its fixups | emit, label, link; disassemble, find callers, functions, hook candidates | cut offsets, sign extension, references before their label |

There are two clients in the repository and they do not meet. `runner.py` is the
entry point; it composes the websocket client, the runtime adapter and the watcher,
and keeps nothing on disk. `MC3APClientService` composes ports, the store and the
reducer; its `_resync_items` is empty, `handle_received_items` has no caller and
`GameRuntimePort.events` has no implementation. So Runner, GameWatcher,
PurchaseRing and PermitGate describe one system, each at a grain of its own, and
CheckStore, ItemStore, Gates and FakeGame describe the other. Both reach the game
through the bridge, and so do the tools, each in a process of its own and most over a
link of its own. Nothing coordinates any of these processes; they meet in the game's
memory, at the sites Hooks and PermitGate model and the words BorrowedMemory does.

What makes them correct:

- items: the tracker's inventory is what the server sent, from the start, without a
  hole; each item has its effect once; what was sent arrives;
- checks: what the player achieves reaches the server over failures and restarts,
  and nothing that was achieved before is reported;
- purchases: each is yielded once and as it was made;
- money: the floor raises the wallet and is never taken for, or hides, a purchase;
- permits: no purchase passes that nothing permits, none is denied that nothing denies;
- the store: what it says is true and what it holds is what the memory believes;
- the desired state: more items and checks open and never close, every evaluator of a
  gate agrees, and the garage gets each grant once;
- hooks: the game never jumps into code that is not there, a redirected call behaves as
  the call did, and what was redirected with care can be undone;
- links: an installed payload is loaded, the mailbox is found, the player's cheats are
  kept, and a borrowed word is returned;
- captures: a comparison tells the truth about words that stood still;
- generated code: a branch goes where its label is, and the scanners see what is there.

## 2. The modules

    ItemDelivery            what item reception promises
       ^ implemented by
    Runner                  run_client, websocket client, tracker   MCRunner, RunnerProofs
    GameWatcher             behind poll_check_ids and apply_money_total   CheckProofs
    PurchaseRing            drained at the end of poll_once         DealerProofs
    CheckStore              MC3APClientService over the store       CheckProofs
    ItemStore               ClientState and the received items      MCItemStore, RecordsProofs
    PermitGate              permit table, flag, DENY trampoline     DealerProofs
    Gates                   the reducer's, the engine's and the generator's gates
       ^ used by
    FakeGame                the fake game under desired states      MCFakeGame, FakeGameProofs
    CodeScan                disassembler, cross references, function scanner
       ^ used by
    Assembler               emission, labels and link               MCAssembler, HooksProofs
    Hooks                   redirected calls, step by step          HooksProofs
    EmulatorLink            installer, emulator, the scans for the mailbox
       ^ used by
    BorrowedMemory          the tools that write                    MCBorrowedMemory, BorrowedMemoryProofs
    Captures                captures, snapshots, dumps, watchers    MCCaptures, RecordsProofs
    Arithmetic              lemmas on sums and measures that the proofs share

### Runner

One process at a time, a server, a link and the game. `pc` says where the process is:
`connect`, `prime`, then around the loop `poll` (between messages), `batch` (inside
one), `resend` (between Sync and the checks that follow it), `apply`, `check`,
`send`. Each await is a step boundary; each packet and each item is a step.

| Code | Action |
|---|---|
| `run_client` 67-97, `connect` 50-56 | `Start` |
| `connect` 58-65 | `Connected` (drops the rest of the message), `Refused` |
| `MC3ApiRuntime.__init__` | `Prime` |
| `poll` 100-116 | `ReceiveItems`, `ReceiveGap`, `ResendChecks`, `ReceiveRoomUpdate` |
| `poll` timing out or raising in `recv` | `PollNothing` |
| a send raising inside `poll` | `PollRaises` |
| `ItemApplier.apply` | `ApplyItem`, `ItemsApplied` |
| `poll_check_ids`, `send_location_checks` | `PollChecks`, `SendChecks`, `SendRaises` |
| Ctrl-C, a kill, any other exception | `Stop` |

A message is a list of packets; the queue holds packets and `end` marks the last of a
message. The server is external and modelled from what the client reads: it answers
Connect with Connected, and the inventory in the same message or the next; Sync with the
whole inventory; it splits new items over one packet or two; it tells of new checks.
The link may break at any message boundary with any of the messages still arriving.
`primed` and `skipped` are history: they let the properties say what a process
found, took and threw away. What the model leaves out: the text of names and
`money_amount_for` (an item has a `Price`), RoomInfo, slot data and the goal status,
which the loop never sends.

### PurchaseRing

Two programs without a lock. The trampoline is one step per store, in the order of its
instructions (count, head, and the four words of the record); `drain` is one step per
read. Fields carry the number of the purchase they were written for, so a torn record
shows. `hook_purchase.py`'s restore and install of the detect site are steps of a third
actor, used by hand, never within the few instructions of a trampoline. A failed
counter read is `ReadFails` (it answers 0), any other `DrainRaises`. `overlap` and
`upset` are history: whether the ring moved under this drain, or ever. So are `owed`, the
purchases that were recorded since the client attached and that no drain has answered for,
however they got into the ring (`_seen`, the code's own account, plays no part in it), and
`lapse`: whether the ring was zeroed or the counter misread since.

### GameWatcher

The player does one thing (`FinishRace`, `Collect`, `WinTournament`, `Spend`) and the
values of a result are written one at a time in any order (`WriteValue`): the order in
which the game writes them is not known to the client. `poll_once` is two steps, the
wallet and then the catalog with all that follows; `apply_money_total` is three, the
test, the second read and the write. `TurnCatalog` makes the pointer unreadable, as it
is without a profile. `LoadProfile` puts another profile or a savestate in the place of this
one at any moment, also between two polls that both see a catalog. Times are `Slow` and
`Fast`; a counter that is 0 has no entry.

### CheckStore

`run`, with each await a step and `Stop` possible before any. A location's row is
`absent`, `unsent` or `sent`. The desired state is abstracted to its checked locations.

### ItemStore

`ClientState` is a record with the code's fields; its three operations are operators of
the same name. The loop of `handle_received_items` is one step per committed row. The
caller is external, and since the service tests no index it may pass any stretch of the
server's log, again or after a lost one.

### PermitGate

Three processes: the game, the client (`PermitTable.apply`, `allow_all`) and the tool
(`hook_purchase.py`). What a writer does is a job, the sequence of its writes towards one
configuration; the table is written byte by byte in any order (`WriteByte`), since the
copy into the emulator's memory is not atomic, and a job may fail before any write
(`Fail`). A purchase is two reads, `ReadFlag` and then `Forward` or `Deny`. `configs`,
`settled`, `torn`, `since` and `doubt` are history: which configurations were asked
for, which of them memory is known to hold, whether a failure or two writers at once
may have left a mixture, and both as they stood when the purchase began. Reading the
site before patching it is one step with the start of the job; a vehicle without a
byte in the table is not modelled. `Apply` is `set_vehicle_permits`: it is given names
and knows those of the vehicle list up to its first invalid entry (`Cataloged`); which
are dropped that way is the configuration it asks for.

### Gates and FakeGame

`Gates` holds pure operators under the code's names over the parts of a `ClientState`
that count. What the code takes out of a text (which thing a gate's description names,
what a money pack is worth, which vehicle a grant is) is a constant. Of the reducer's
sets those are kept that a runtime consults: cities, events, vehicles, abilities and
parts; classes, categories and cosmetics go the same way.

`FakeGame` composes it with the fake runtime. The client receives items, now and then gives
the game the state they reduce to (`set_desired_state`) and repairs it (`reconcile`); the
player acts in between and the checks go to the `ClientState` through the hook the runtime
has for it. `Player` is what a scenario's script may do. Grants that do not all fit are
taken in the order of a Python set, which is any (`Fit`). `Violations` is the reconciliation
check.

### CodeScan and Assembler

Pure operators over a sequence of words. An instruction is a record of its kind, its
immediate and its target; of the instructions of one encoding one is kept, and
halfwords have `Half` values, so that the sign bit and the carry between `lui` and the
low half happen with small numbers. `CodeScan` reads such a sequence as the tools read
code: `Destination` (branch and jump targets), `FindCallers`, `FindDatarefs` (an address
put together from two halves), `FunctionStart` and `FindFunctions` (two ways to bound a
function, the first no further back than `SearchBack` words), `FindHookCandidates`. That
a call is proposed without a look at its delay slot is so in the code.
`Assembler` builds the sequence: `Emit`, `Lbl`, `RType`, `IType`, `Jr`, `LoadAddr` append,
`Reference` leaves a fixup, `Link` fills them in, in any order and possibly twice.

### Hooks

Every writer of the game's code is a process: the three instrumentation tools (`Install`,
`Restore`, `Write`, and `Fail` between any two writes), `HookManager` and `patch_jal`
(`ManagerReads`, `ManagerWrites`, `ManagerRestores`, `PatchJal`), the emulator applying
the payload's cheats (`ApplyPnach`, at any time). `HookManager` refuses a word that is no
JAL, `patch_jal` warns and writes (`HoldsJal`), so the latter may also redirect the
display function's entry. The game's processor runs the routine
its call landed in, an instruction that matters at a time: what pushes and pops the
return address, what calls on, what stores a record. `visits`, `args`, `saved` and
`stack` say what the call has done to what it must not touch. The routines of the game
are external and do what the calling convention allows. Over an entry, a JAL leaves the
entry's own third instruction as the return address: the call runs the body again and
again and the model stops where it would write over its callers' frames, so the display
ring gets one record at most. For the same reason the monitor's `DisplayProbeTracker`, which
prints what is new in that ring, is not modelled.

### EmulatorLink and BorrowedMemory

`EmulatorLink` has the player's files, the installer (one step each for the backup, the
copy and the edit of `PCSX2.ini`, whose loop is `Line`), the emulator (`Boot`, `Exit`,
`Execute`, which protects a page) and the memory of its process: a sequence of pages
that belong to the emulated memory, an image of it, something else or nobody. The five
scanners are records of what they look at, which `Scan` interprets. Sizes are scaled to
pages; the assumptions keep their order.

`BorrowedMemory` composes it with two processes that each run one of ten commands: find
the mailbox, read the words (or not), write them, hold, put back (or not). A write lands,
raises or is silently lost, by the way the command writes (`BridgeWrite` lifts the page's
protection, `CheckedWrite` raises, `ExploreWrite` ignores the result). `found` and `alone` are
history.

### Captures

One memory of a few words, and programs that read it a chunk at a time while the game
writes: captures into a directory of files that keeps what an earlier capture left,
snapshots that follow the profile pointer, series of dumps, the monitor's garage log and
the race listener. Any of them may be stopped between two reads or two files (`Abort`). A
comparison of captures is an operator: what it takes up, what each word is worth
(`DiffWorth`, `NDiffWorth`), and the first rows in that order, up to the report's limit
(`FirstRows`; 5000 rows for two captures, `--top` for several). A series writes a dump
(`SaveDump`) and then, a comparison later, the difference (`SaveChanges`); `prev` is a local,
so a series that is begun again has none, over the files that are there. `steady`, `truth`,
the `run` a dump or difference is marked with, and `polls` are history.

## 3. The runs

A run whose result is *violated* states what a document, comment or test of the
repository says and shows that the code does otherwise (section 6).

| Run | Result | Bounds | States |
|---|---|---|---|
| `runner` | holds | 2 items (one money), 1 check, 3 grants, 2 processes | 60 591 |
| `ring` | holds | 2 records, 3 purchases, 1 reinstallation | 208 672 |
| `check_store` | holds | 2 locations and the goal, 4 events, 3 starts | 9 303 |
| `item_store` | holds | 2 items, 1 location, 4 grants, 2 starts | 41 239 |
| `watcher` | holds | 1 route, 2 cities, 2 moves (loading another profile is one), money of 0..3 | 1 288 567 |
| `permit_gate` | holds | 2 vehicles, 4 configurations, 2 writers | 1 000 554 |
| `fake_game` | holds | 5 items, 2 received; 8 gates, 1 race won, 1 purchase | 544 304 |
| `assembler` | holds | 4 words, 1 label, a halfword of 4 values | 2 255 366 |
| `hooks` | holds | 2 records, 3 calls, 2 changes | 80 709 |
| `link` | holds | 2 installations, 2 boots, 2 layouts, 2 tools, 2 starts, 1 write of the game | 948 533 |
| `captures` | holds | 6 words in chunks of 2, 2 or 3 runs of one kind, 2 to 4 writes, 1 failed read, reports of 1 row | 1 091 730 |
| `runner_replay` | violated | as small as shows it | |

Why the bounds are enough. A gap takes an item known, an item lost and an item after it:
three grants; a second process shows that nothing is carried over. Three purchases over two
records wrap the ring and overwrite one, and leave one to come after a reinstallation. Four
events are two checks, one repeated, and the goal; three starts let a restart follow a
restart. In `item_store`, four grants let a stretch be appended, repeated, skipped and
replaced. In `watcher` two moves are a move before and a move after, or a prize and a
purchase between two polls, which is what the properties speak of; the wallet starts above
one price and below the highest floor so that every branch of `apply_money_total` is taken.
In `permit_gate` four configurations are the first, one that settles and two writers at
once; two vehicles are one that is permitted and one that is not. In `fake_game` the seed
has a gate of each form (items, alternatives, counts, locations, an unknown location), a
garage of one slot that two items would raise above the cap of two, so that a grant may
wait, lose its slot to a purchase and get the next. In `assembler` four words hold a pair of
address halves with something between them (a word store, which the scanner looks for, or a
byte store, which it does not), or two functions; a label may come before, after and again.
In `hooks` two changes are an installation and a restore, or two redirections of one site;
of three calls the last overwrites the first in a ring of two, and each may be anywhere in
its routine when a site changes. In `link` a second installation overwrites the backup and a
second boot moves the memory; tools start only where the files are in one usual state, since
what they do does not depend on how they came there; pages 3 and 4 run code, one of them the
mailbox's neighbour and one that a tool writes; two words are given to a command at most,
one of them in a protected page. Two writes of the game let a word change between two chunks
and between two captures; the garage needs four to move a vehicle between its slots and buy
one; the listener three. A report of one row is cut as soon as two words differ; three dumps
are two differences of one series, or a series stopped and one begun over its files. The
kinds of programs share no file, so a behaviour has one kind. Symmetry is used over the two
tools, which the property quantifies over alike. Every bound is a constant named `Max...`;
`Window`, `SearchBack`, `LargestFunction`, `DiffRows` and `TopRows` are limits of the code
made small.

Runs that are given `CHECK_DEADLOCK FALSE` really end: the bound on grants, events,
purchases, starts, writes or words is used up and nobody is left to act. In `watcher`,
`permit_gate` and `fake_game` somebody always can act (the client polls, the player buys or
travels), so deadlock is checked there.

### What the properties say

- `InventoryIsPrefix`, `DeliverySpec`: under bundling, splitting, loss and repetition
  the tracker has the beginning of the server's log, and never forgets.
- `GrantedOnceUnlessSkipped`: no failure between the tracker and the applier loses an
  item the tracker will not ask for again, and as long as connect threw nothing away, no
  item is applied twice either: exactly when a replay doubles money.
- `SessionChecksAccounted`: while the link is up an achieved check is somewhere on
  its way. `ChecksArrive`, `AnnouncedItemsArrive`: it, and an announced item, arrive,
  over a gap and a Sync.
- `UndisturbedDrainIsExact`: a drain the ring leaves alone returns the purchases owed to
  the client, oldest first, intact, the newest when there were too many, whatever
  failed before; but for one thing: once the ring was zeroed under the reader, purchases
  are lost (section 6). `RepeatsOnlyWhenUpset`: repetitions have two causes only.
  `NewestIsYielded`: the newest purchase of a ring at rest comes out.
- `SentMarkIsTrue`, `MemoryIsDurable`, `DesiredNeverShrinks`, `NewChecksArrive`: the
  store, the memory, the game and the server after a stop at any await.
- `ItemsAtTheirIndex`, `MoneyCountsEachItemOnce`, `ItemsNeverTakenBack`: the two views
  of the items, the table and the server agree, and a running client knows what is stored.
- `PollReportsMoves`, `SpendingIsExact`: if the game leaves a poll's accesses alone, it
  reports to the dollar what was spent, the routes whose time improved if a race was won
  (those that were lost among them), the newest tournament, and of several logos one, of
  the first city with a new one; its number is right only as long as no other city has a
  logo (section 6). The condition is needed: the reads are not
  synchronised with the game, and without it both fail.
- `OnlyNewProgressFires`: a poll that follows one of the same profile, catalog and all,
  reports no route that was finished before; nothing is promised of the poll after an
  unreadable catalog, another profile or a savestate, and there old routes do fire.
- `PurchasesFollowConfigs`: a purchase that passes is one that some configuration asked
  for since the one in force at its beginning lets through, whatever mixture of flag
  and bytes the trampoline saw; one that is denied was denied by the flag of one and the
  table of the same or a later one: since `apply` writes the flag last, arming never
  enforces an older table. The mixture of old flag and newer table can deny what neither
  denies, and the property has to allow it. The site is patched last.
- `GatesAgree`: the reducer, which looks locations up by id, and the gate engine, which
  is given names, open the same gates, and the generator's rule asks for no more.
  `NothingTakenBack`: a later desired state takes nothing back.
- `GarageIsExact`: grants are given once and never above the limit, over waiting, a
  moving limit and purchases. `TravelStaysLegal`: the reconciliation check never
  complains of a city the player was let into.
- `ReferencesLand`: every branch, jump and address of a linked program goes to its label,
  read back by the disassembler. `EveryUseIsFound`: the scanners find every call and
  every use of an address, unless it is the store of a byte, which they never find.
  `EntryRunsToTarget`: an entry that is proposed for a hook is of a function that runs to
  the wanted call, and so is the listing of a function around a word.
- `JumpsIntoCode`, `CallsAreTransparent`, `CallsComeBack`: whatever is installed, chained,
  restored or left half done, and whenever, the game jumps only into code that is there, a
  call of SetCarCfg reaches it once with its arguments and comes back. `RestoreUndoes`:
  redirections made with the expected original given are undone. `RingsShowTheLatest`:
  at any moment at which no trampoline is between its stores to a ring, its reader is
  right: `recent` has the last records newest first, the tools' status each of the last.
- `InstalledGameHasPayload`, `PayloadIsFound`: after a complete installation the game that
  is booted has the payload, and the bridge's, mc3_api's and run_explore's scans find it,
  whatever pages are protected. `CheatsAreKept`: the player's cheats survive the first
  installation. `BorrowedIsReturned`: a pulse that comes to its end leaves each word as
  it was found, unless someone else wrote it.
- `ComparisonIsReal`: of the words that stood still, a report of `diff` or `ndiff` names only
  such as differ (and split the groups, if asked for), and one it leaves out ranks behind
  every row of a report that is full. `SnapshotRowsAreReal`: a row of a snapshot's
  comparison is a word that changed, if the profile stayed where it was (that every word
  that changed has a row is not stated: regions are cut and rows limited).
  `SeriesIsComplete`: wherever earlier series were stopped, the last one can be rebuilt
  from its first dump and its differences, of which only the newest can be missing.
  `LogsCatchUp`: after an undisturbed poll, what the garage monitor and the listener have
  printed adds up to what is there, and a race is announced by it exactly when the player
  is in one and the poll before saw none; but for the first poll of a listener that began
  in free roam (section 6).

### Fairness

`Runner`: the loop is `while True` and swallows what a poll raises, so `WF(Process)`; the
server answers, so `WF(Server)`; a poll may time out although a message is on its way, but
not each time, so the three receiving actions are strongly fair together. Nothing is assumed
of the player, the link, starts or stops, and the liveness properties hold only as long as
the link and the process do. `PurchaseRing`: a running emulator finishes the trampoline, the
client polls for ever, and reading a running emulator's memory fails for a while (a load, a
pause) but not for ever. `CheckStore`: the event loop of a running service runs on. `Hooks`:
the emulated processor executes, `WF(Execute)`, whatever the tools do; nothing is assumed of
them. The other modules state no liveness and need none.

## 4. What is proved

TLAPS proves, for every value of the constants that meets the modules' assumptions: `Price`
maps items to naturals and there are finitely many items; bounds, slots and prices are
naturals (a prize and a price at least 1, a city one of the first eight ids); the goal is not a
location; names of items and locations are unique, what the
reducer's tables list is finite and the start city is a city; a ring has a record; a gate
is asked for one configuration at least; the emulator's sizes keep their order, its
layouts have the regions the scans look for, `PCSX2.ini` is a sequence of lines, and the
game is not one of the tools; a halfword has an even number of values and a loaded address
fits two of them; there are finitely many names of captures and none is a snapshot's, the
profile is never at word 0, regions have names of their own, values of words are naturals.

| Theorem | Says |
|---|---|
| `RunnerProofs!InventoryPrefixTheorem` | `TypeOK` and `InventoryIsPrefix` always |
| `RunnerProofs!RunnerImplementsDelivery` | `Runner` implements `ItemDelivery` |
| `RunnerProofs!ChecksAccountedTheorem` | `SessionChecksAccounted` always |
| `RunnerProofs!NothingUnderGrantedTheorem` | no item is granted less than it was received (the first half of the next) |
| `RunnerProofs!GrantedOnceTheorem` | `GrantedOnceUnlessSkipped` always |
| `CheckProofs!SentMarkTheorem` | `TypeOK` and `SentMarkIsTrue` always |
| `CheckProofs!DurableMemoryTheorem` | `MemoryIsDurable` always |
| `CheckProofs!DesiredGrowsTheorem` | `DesiredNeverShrinks` |
| `CheckProofs!PollReportsMovesTheorem` | `PollReportsMoves` |
| `CheckProofs!SpendingIsExactTheorem` | `SpendingIsExact` |
| `CheckProofs!OnlyNewProgressTheorem` | `OnlyNewProgressFires` |
| `RecordsProofs!ItemsAtTheirIndexTheorem` | `ItemsAtTheirIndex` always |
| `RecordsProofs!ItemsNeverTakenBackTheorem` | `ItemsNeverTakenBack` |
| `RecordsProofs!MoneyCountsEachItemOnceTheorem` | `MoneyCountsEachItemOnce` always |
| `RecordsProofs!ComparisonIsRealTheorem` | `ComparisonIsReal` always |
| `RecordsProofs!SnapshotRowsAreRealTheorem` | `SnapshotRowsAreReal` always |
| `RecordsProofs!SeriesIsCompleteTheorem` | `SeriesIsComplete` always |
| `RecordsProofs!LogsCatchUpTheorem` | `LogsCatchUp` |
| `FakeGameProofs!ReducerIsMonotonic` | more items and more checks reduce to no less |
| `FakeGameProofs!GatesAgreeTheorem` | `GatesAgree`, for every seed and inventory |
| `FakeGameProofs!NothingTakenBackTheorem` | `NothingTakenBack` |
| `FakeGameProofs!TravelStaysLegalTheorem` | `TravelStaysLegal` always |
| `FakeGameProofs!GarageIsExactTheorem` | `GarageIsExact` always |
| `DealerProofs!RepeatsOnlyWhenUpsetTheorem` | `RepeatsOnlyWhenUpset` always |
| `DealerProofs!UndisturbedDrainIsExactTheorem` | `UndisturbedDrainIsExact` |
| `DealerProofs!PurchasesFollowConfigsTheorem` | `PurchasesFollowConfigs` |
| `HooksProofs!JumpsIntoCodeTheorem` | `JumpsIntoCode` always |
| `HooksProofs!RestoreUndoesTheorem` | `RestoreUndoes` |
| `HooksProofs!CallsAreTransparentTheorem` | `CallsAreTransparent` |
| `HooksProofs!RingsShowTheLatestTheorem` | `RingsShowTheLatest` always |
| `HooksProofs!ReferencesLandTheorem` | `ReferencesLand` always |
| `HooksProofs!EveryUseIsFoundTheorem` | `EveryUseIsFound` always |
| `HooksProofs!EntryRunsToTargetTheorem` | `EntryRunsToTarget` always |
| `BorrowedMemoryProofs!CheatsAreKeptTheorem` | `CheatsAreKept` always |
| `BorrowedMemoryProofs!InstalledGameHasPayloadTheorem` | `InstalledGameHasPayload` |
| `BorrowedMemoryProofs!PayloadIsFoundTheorem` | `PayloadIsFound` always |
| `BorrowedMemoryProofs!BorrowedIsReturnedTheorem` | `BorrowedIsReturned` |

**Induction.** The library's induction theorems take an operator as a parameter and
cannot be instantiated here. `Arithmetic` gets round that with a set: the set of the
numbers up to which a statement holds has 0 and the successor of each of its members, so
it is all of `Nat`. From that it has what sums over a finite set are (`SumOverSet`,
`SumOfEqual`, `SumOfLarger`, `SumByValue`) and what a measure of sequences is, a
function that gives every member its weight and adds (`MeasureOfConcat`,
`MeasureOfTail`, `WorthAddsUp`, `OccurrencesAddUp`). The models' recursive functions are
brought into that form, and a loop of the code that was modelled as such a function is
followed line by line (`EditsTo`, `PollsTo`) with an invariant of its own.

**Inventory.** `InventoryIsPrefix` is not inductive: a packet in the queue might
carry anything. `IInv` adds what the queue carries (`Faithful`: each ReceivedItems is a
stretch of the log), in which order (`Ascending`: they end in ascending order, none
before the tracker's `next_index` and none after the server's `cursor`), that the
queue ends with the end of a message, that a process inside a message has a
queue, and that a process that is down has left nothing behind. `Ascending` is the
heart: it is what makes a full replacement safe, since an index-0 packet that is
still in the queue reaches at least as far as the tracker already is. The same fact
gives the refinement: `ReceiveItems` is a `Learn` step and not a loss. Lemmas on queues
(`AppendPacket`, `StretchOfQueue`, `TailOfQueue`) carry it over the sequence operations.

**Effects of items.** How often an item was granted and how often it was received are
measures of three sequences: what waits in `applied_pending`, what was applied, and the
inventory. That they balance from below (`AtLeastOnce`) is an invariant as it stands
once it is known that nothing waits outside an iteration (`NothingLeft`). That they
balance exactly (`ExactlyOnce`) needs that no packet on its way replaces what is known:
while nothing was skipped, the packets of a connection continue one another and the
inventory (`Chained`, `Reaches`), the server starts where the tracker is (`Joining`), and
only the first of a connection may be a full inventory (`Continues`, `Bundled`).

**Checks of a session.** `SessionChecksAccounted` needs two facts beside it: nothing is
held in `check_ids` except while it is being sent, since `PollChecks` overwrites it
(`HeldOnlyToSend`), and the baseline has nothing that is still to be achieved
(`SeenWasDone`). What a queue of requests carries only grows with an append and loses
no more than its head with a tail (`CarriedAppend`, `CarriedTail`).

**Received items.** That a table agrees with the log is kept by the loop of
`handle_received_items` only because what is left of it comes next in the log
(`LoopReadsLog`); that a running client forgets nothing, because the state being built
has all that the table and the caller's state have (`NothingForgotten`), whichever of
the two it began from. Money follows from the two views of the items being images of
one another (`Agree`): the sum over the items' instances is the sum over the indices,
regrouped by value.

**Check store.** The strengthening says, for each place `run` can be at, how the row
of the location being processed stands (`AtHand`), that memory is the table plus that
location while it is not yet recorded (`MemoryMatches`), and that the game's desired
state is within the table (`DesiredIsRecorded`).

**Game watcher.** A poll compares catalogs that may be caught half written, so the invariant
is about what the values will be when the last of them is (`target`), not what they are.
`Written` says which are still owed. `Progress` says, for a client whose last poll was clean,
that the values a move raises are above those of that poll exactly if there was such a
move, and a time below its exactly if it was improved; each result only advances
(`Advances`), which is shown once for the three kinds (`ResultKeeps`). `Balance` is the
account of the wallet: with what is owed to it, less what was injected, it has gained what
was earned less what was paid; writing a value moves it from what is owed to the wallet and
changes nothing. `Reads` is why the account survives the client's own accesses: when
the game was not seen to act between them, what was read is still there. `Untouched` says of
a route that was not finished in this profile that its time is the one of the last poll, as
long as that was of this profile. At an undisturbed poll nothing is owed, and the
properties follow by comparing (`Compared`, `SpentFacts`).

**Gates and the fake game.** That an open gate stays open (`GateStaysOpen`) is a fact of the
operators: the owned names and the counts only grow with the instances (`OwnedGrows`,
`CountGrows`), and a location that is in the checked set stays. So the cities of a reduced
state grow (`OpenedGrows`), and so does the rest of it: slots and money are sums over more
instances (`ReducerIsMonotonic`). `TravelStaysLegal` is not inductive, a next desired state
might be anything: the strengthening says that the cities of the state in force are among
those the client's items and checks open now, which only grow, and that a player who was let
in is in one of the former. `NothingTakenBack` needs to know that the state in force was
reduced from no more than is there now (`WasReduced`). `GarageIsExact` adds that what is
owned was bought or granted, and what was granted is in the state in force (`GarageInv`).
`GatesAgree` follows from the uniqueness of names alone (`GatesAgreeOnAll`).

**Purchase ring.** `RingInv` describes the ring between any two stores of the trampoline:
how many purchases it has counted, that the ones it holds rise, and which fields of the
record under construction are written. `DrainInv` says what the reads of a drain have
collected, for a drain nobody disturbed; with it the records returned are the last of
the ring, intact (`Exact`). `OnceInv` is about the history of all drains: what was
yielded is older than what `_seen` leaves to be read (`Older`), which is what keeps
wraparound, failed reads and reinstallations from repeating a purchase. `AccountInv` is about
what is owed to the client: it is the end of what the ring has recorded, as many purchases
as the counter is ahead of `_seen` (`Settled`), of which a running drain leaves those that
came too late for it (`Pending`).

**Deny gate.** `GateInv` says where every byte stems from: the flag and each byte were
asked for by the settled configuration or a later one (`FlagAsked`, `BytesAsked`), by the
last when the writers are done and nothing was torn (`AtRest`), and by a writer's own as
far as a writer alone has come (`UnderWay`). The order of the writes is in two parts.
Whoever writes both sets the flag last or resets it first, so a flag that is set while
somebody writes was set by the settled configuration (`ArmedLast`); hence a trampoline
that has read the flag and not yet the byte has a configuration that set it, and
whatever forbids the vehicle from then on was asked for by that one or later
(`FlagThenByte`). And a job of `install_deny` whose last step is the site has written
the code (`JobOK`).

**Hooks.** Two invariants. The writers' (`WriterInv`) says that a site holds code that is
written (`SitesHoldCode`), that a tool that is about to redirect has written its
trampoline (`CodeBeforeSite`), that the first site's tool has the payload's handler to
fall back on (`PayloadBeforeTool`), and that what HookManager is about to write or keeps
for a restore is code, and the game's own routine as long as no redirection was made
without its original (`Pending`, `Kept`). The processor's (`CpuInv`) says where in the
chain of routines a call may be: each routine is described for any return address and
any stack (`InSetCarCfg`, `InHandler`, `InTrampoline`), so that a description can be
used inside another, and each has a lemma that a step stays in it or leaves it with the
callee done and the stack as it was (`Leaves`). The sites may change at any moment, but
a processor that is on its way reads none, which is why the two invariants meet only
where a call begins. `RingsShowTheLatest` adds where a call can be at all (`PlaceInv`) and,
for each ring, how many records it holds and which (`RingHolds`), while a trampoline is
between its stores as well, which is where a new call and another tool's zeroing meet it.

**The installer and the scans.** `CheatsAreKept` is strengthened by where the cheats are for
each number of installations and each rest of the installer's steps (`PlayersCheats`).
`InstalledGameHasPayload` follows the loop over `PCSX2.ini` (`EditOK`): when it is past the
section the setting is in it or was put there, whatever settings of that name other
sections have. `PayloadIsFound` says of the emulator's memory only that the marks are where the
layout and the emulator's own protections put them (`EmuInv`); from that it is shown for each
kind of scanner that the region around the mailbox's page is one it takes, that a piece
it reads covers the page, and that no page before it answers (`RegionOfPage`,
`PieceIsRead`, `ScanFinds`).

**Borrowed words.** The invariant says for each command, by how far it is, what it has read
(`Reading`, `ReadingOnce`), what it still has to put back (`PuttingBack`), that it wrote no
word it was not given (`OnlyGiven`), and that a word nobody else wrote holds what the command
found or gave it (`Borrowed`).

**The assembler and the scanners.** `ReferencesLand` must know that no two references share
a word, so that filling one in leaves the others alone (`Placed`), and what the words of
an image were filled in with (`Linked`): the labels as they were at that link, which may
have moved since. Filling is followed reference by reference (`FilledFacts`), whichever
order `link` takes them in. `EveryUseIsFound` and `EntryRunsToTarget` hold of any sequence of
words; the first is the arithmetic of a sign and a carry for any even halfword (`Joined`,
`Carried`: a high half rounded up and a sign-extended low half give the address back), the
second is what a search back for the start of a function has passed over (`NoReturnBefore`),
with a limit or without.

**Captures.** `CaptureInv` has a part for each kind of program, half done and completed.
While a capture runs, each chunk it has written agrees with the words that stood still since
it began (`Capturing`); when it ends, the file agrees with what is known of them
(`CapturesTrue`), unless chunks of an earlier capture are among its files. A snapshot's
region is right for the place the pointer was read to give (`RegionRight`, `Snapshotting`,
`SnapshotsTrue`). Of a comparison, what it takes up is right for the words that stood still
(`DifferingIsTrue`), and in a finite set of numbers with ranks the first so many are all of
them or rank before the rest (`FirstRowsFacts`). Every dump has every piece (`Whole`), the
dumps and differences a series has written so far are marked with it (`Numbered`,
`SeriesGoesOn`), no file is marked with a later one (`Marked`), a difference that is marked
as its neighbours is theirs (`Neighbours`), and between two dumps of one series there is one
(`Complete`); the rest of an older series is told apart by its mark. From that the last
difference that names a word decides what it holds, by induction over the series. A pass of
a watcher has read the first of its words, right for those that stood still (`Following`),
and what was printed adds up to what the watcher last saw (`LinesAddUp`, `EventsAddUp`); an
undisturbed pass saw what is there. Each program's step is shown to keep its own part, and
every other part because it touches nothing of it (`Elsewhere`); a write of the game keeps
all of them since it takes its word out of what stood still. Where the model folds over a
sequence (`FlattenSeq`, `FoldLeft`), the proofs have what the fold gives by induction over
beginnings of the sequence (`Flattened`, `SumOfAppend`).

Only model-checked: the liveness properties (`AnnouncedItemsArrive`, `ChecksArrive`,
`NewestIsYielded`, `NewChecksArrive`, `CallsComeBack`), since fairness and `ENABLED` are outside
the prover. Every other property of the passing runs is stated by a theorem above.

## 5. Not modelled, and the plan

Not modelled for good:

- the APWorld's generation: `worlds/mc3/items.py:58` calls `_guess_classification` before
  it is defined (line 153), so importing the world raises NameError and there is no
  behaviour to model; the rule of a gate is in `Gates`;
- name classification (`domain/item_semantics.py`, `check_semantics.py`), record types,
  unit tests: pure data, and nothing in the client calls the classification;
- what only reads and prints: the monitor's header, the dealer's row table, the vehicle
  displays, `probe_vehicle_metadata.py`, the watch loops, the string search;
- `race_sampler.py`, whose comparison loops over pairs and never over words (88-91), and
  so compares nothing;
- the installer's search for folders, pip and the copy of the APWorld.

The order in which the project was and will be written:

1. `ItemDelivery`, `Runner`, `PurchaseRing`, `CheckStore`, `ItemStore`, `GameWatcher`,
   `PermitGate`, `Gates`, `FakeGame`, with the proofs of section 4 (done).
2. `CodeScan`, `Assembler`, `Hooks`, `EmulatorLink`, `BorrowedMemory`, `Captures`, with
   the proofs about `Hooks`, `BorrowedMemory` and `ItemStore` (done).
3. Proofs about `Assembler` and `Captures` (done).
4. `GameWatcher` under `Runner`: `PollChecks` and `ApplyItem` shown to be implemented by
   the poll and the wallet write of several accesses each (not begun).

## 6. Where code and documents differ

| Run | The document says | The code does |
|---|---|---|
| `runner_replay` | design.md:1634 "money ledger: replay does not double money" | a full inventory's items are all new again (runner.py:56) |

Met while modelling, without a run of their own (the properties are worded around them):

- design.md:1270 "Python restart does not lose items/checks.": a check whose send failed is
  in nobody's memory (runner.py:113); design.md:1648 "offline received items delivered on
  reconnect": packets bundled behind Connected are dropped (ap_client_adapter.py:62), until a
  gap shows it;
- purchase_hook.py:51 "each purchase is yielded exactly once": a drain between the stores
  returns a record not yet written (purchase_hook.py:73); and after a reinstallation has
  zeroed the ring under an attached reader (hook_purchase.py:183), purchases recorded before
  the next drain are never yielded, up to the old `_seen`: a count that is not above it is
  taken over without reading a record. `UndisturbedDrainIsExact` excepts them;
- check_mapper.py:9 and 44-46, tests/integration/test_check_mapper.py:41 and api.md:95 number a
  logo within its city; events.py:203-205 hand on the count over all cities, so that the
  name is wrong as soon as a second city has a logo: `PollReportsMoves` takes the number for
  the city's own only until then;
- mc3api_runtime.py:51 "so we don't fire checks for pre-existing state" and design.md:1262-1272:
  when another profile or a savestate is loaded between two
  polls, or the catalog was unreadable at one, the routes it has finished are reported as new
  (events.py:149-158): `OnlyNewProgressFires` speaks of polls that follow one of the same
  profile. A poll between the two writes of a result takes a won race for a lost one, and the
  next does not look at it again: that check is lost;
- mips_assembler.py:237 emits `sb`, and static_xref.py:92 does not look for it (0x28 is missing
  among the loads and stores): such a use of an address is never found, as `EveryUseIsFound`
  says; the search for a function's start ends after 4096 words (static_xref.py:120);
- mc3_api.py:352-356: patch_jal says that a word is no JAL and replaces it all the same;
- PURCHASE_FLOW_STATIC_ANALYSIS.md:125 "`permit allow-all` (also clears enforce) to disarm":
  the command writes the table and leaves the flag (hook_purchase.py:249);
- mc3api_runtime.py:98 "A no-op if the deny hook is not installed": the table and the flag
  are written either way (106);
- dealer_display.py:7 "strictly non-mutating": the probe's JAL stands over a function's
  entry, so it overwrites the return address the game set, and its trampoline uses S0 to
  S4; hence `CallsAreTransparent` speaks of the two call sites;
- the payload `build_payload.py` makes has `hook_career_load` at 0x720040, where the
  first site's tool expects the handler of SetCarCfg (0x7200C0 there), so the tool aborts
  with it; the comment says build 7 and the value is 8, `probe_memory.py` expects 9; the file
  install.py copies (payload/dist/60A42FF5.pnach) is not in the repository;
- monitor.py:211 "the first time": the tracker keeps the last fields of a vehicle, so a
  ring that shows one vehicle in two ways prints both lines again at every poll;
- listen.py:21 takes free roam (6) for a race when it starts, line 38 does not: a race that
  begins between the start in free roam and the first poll is not announced, as
  `LogsCatchUp` says;
- a second installation overwrites the backup by the payload (install.py:89): `CheatsAreKept`
  speaks of the first;
- live_inject finds the mailbox only if a region of at least 1 MiB begins within the MiB
  before it; probe_memory insists on its build: `PayloadIsFound` speaks of the other three;
- run_explore's writes to protected pages are lost and force_location_check says ok
  (action_driver.py:78);
- `_find_dealer_row_table` stops at the first offset with six vehicles among eight rows, two
  rows before the table (dealer.py:107-122), and row indices are off by two;
- vehicle entries are 0x1C bytes in vehicles.py and 0x54 in action_driver.py:100 and
  mc3_api.py, a stride vehicles.py:9 calls wrong;
- a pulse that is stopped or fails leaves the word changed; only pulse_from_report restores
  in a `finally`, and it has nothing to restore if a write raised; an address given twice is
  restored to what the first write put there;
- a capture over narrower ranges leaves chunks of an earlier one of its name, an interrupted
  one mixes two; a snapshot's profile is read before its pointer is recorded, and if the
  pointer is invalid the rows count from it although the fallback was read; what changed
  around an unreadable chunk is in no difference of full_diff, a series that is stopped may
  leave its last dump without one, and dumps and differences of a longer series before it
  stay beside it (full_diff.py:96-113). A file that is half written when the tool is stopped
  is not modelled;
- diff writes the first 5000 rows, ndiff the first 10000 or `--top`, and both print how many
  there were before (map_vehicle_selection.py:157, 274);
- "include delay slot" in mips_scanner.py cuts the function before it; `callees` lists every
  JAL for every function.

Other losses the models have, which the properties are worded around:

- a check that was recorded and not sent is known after a restart, so nobody sends it
  (client_service.py:92; `get_unsent_checks` has no caller): `NewChecksArrive` speaks of
  checks that are new to the store;
- a full inventory replaces the `ClientState` by one without checked locations
  (reducer.py:353): `ItemsNeverTakenBack` speaks of items;
- a baseline taken while the catalog is unreadable makes the whole profile look new
  (events.py:154): hence the condition of `OnlyNewProgressFires`;
- an empty set of permits allows everything in the fake game, so the first permit of a
  kind locks all else of that kind (fake_game_runtime.py:130, 145): `NothingTakenBack`
  speaks of the sets, and `TravelStaysLegal` of cities, where an empty set locks all;
- the fake game's `reconcile` sets the wallet to the items' money, prizes and purchases
  since are forgotten (fake_game_runtime.py:89).
