------------------------------- MODULE Hooks --------------------------------
(***************************************************************************)
(* Calls of the game redirected into code of our own while it runs:        *)
(* mc3api/hooks.py (HookManager), tools/instrument_setcarcfg.py and        *)
(* instrument_setcarcfg_first_site.py, tools/probe_dealer_display.py with  *)
(* mc3api/dealer_display.py, tools/build_payload.py, and patch_jal of      *)
(* tools/mc3_api.py.                                                       *)
(*                                                                         *)
(* Each writer is a process of its own and the game never waits for one:   *)
(* between any two writes, and in the middle of a trampoline, anything     *)
(* else may happen.  The game's processor is modelled by what a trampoline *)
(* must not lose: the return address, the arguments, the saved registers.  *)
(***************************************************************************)
EXTENDS Integers, SequencesExt

CONSTANTS
    REC_COUNT,     \* records of a ring
    MaxCalls,      \* bound: calls the game makes
    MaxChanges     \* bound: installations, removals and redirections begun

ASSUME RingAssumption == REC_COUNT \in Nat \ {0}
ASSUME BoundAssumption == {MaxCalls, MaxChanges} \subseteq Nat

VARIABLES
    site,          \* game memory: the routine each hooked place runs
    written,       \* the routines of ours whose code is there
    ring,          \* the rings of records
    job,           \* the writes each tool still has to make
    manager,       \* what HookManager has read and not yet written
    active,        \* HookManager._active: what its sites held
    careless,      \* was a redirection made without the expected original?
    changes,       \* how many changes were begun
    cpu            \* the game's call: step, registers, frames

memory == <<site, written, ring>>
writers == <<job, manager, active, careless, changes>>
vars == <<memory, writers, cpu>>
-----------------------------------------------------------------------------
CallSites == {"first", "second"}       \* 0x004AE100, 0x004AE080: JAL SetCarCfg
Sites == CallSites \cup {"entry"}      \* 0x00329480: no call, a function's entry
Tools == Sites                         \* one tool for each

Trampoline == [first |-> "T1", second |-> "T2", entry |-> "probe"]

\* What the tool wants to find at its site, and puts back.  At the first one
\* that is the payload's handler, through which its trampoline chains.
Original == [first |-> "handler", second |-> "SetCarCfg", entry |-> "display"]

\* The two trampolines of SetCarCfg share a ring.  log is its history.
RingOf(routine) == IF routine = "probe" THEN "display" ELSE "cfg"
Slots == 0..(REC_COUNT - 1)
EmptyRing == [count |-> 0, head |-> 0, slots |-> [s \in Slots |-> 0], log |-> <<>>]

\* The trampolines, the payload's handler, and the game's routines (external:
\* they do to the registers what the calling convention allows).
Forwarding(callee) ==
    <<"push", "count", "head", "record", callee, "pop", "return">>
ProbeSteps ==
    <<"stash", "index", "count", "head", "record", "unstash", "push", "resume">>
HandlerSteps == <<"push", "SetCarCfg", "pop", "return">>
GameRoutines == {"SetCarCfg", "display"}
Steps == [T1 |-> Forwarding("handler"), T2 |-> Forwarding("SetCarCfg"),
          probe |-> ProbeSteps, handler |-> HandlerSteps,
          SetCarCfg |-> <<"work", "return">>,
          display |-> <<"push", "body", "keep_ra", "pop", "return">>]

Home == <<"caller", 1>>
Idle == [pc |-> Home, ra |-> Home, args |-> "given", saved |-> "kept",
         stack |-> <<>>, scratch |-> <<>>, site |-> "none", visits |-> <<>>,
         number |-> 0]

Init ==
    /\ site = [s \in Sites |-> IF s = "entry" THEN "display" ELSE "SetCarCfg"]
    /\ written = {}
    /\ ring = [r \in {"cfg", "display"} |-> EmptyRing]
    /\ job = [t \in Tools |-> <<>>]
    /\ manager = <<>> /\ active = <<>> /\ careless = FALSE /\ changes = 0
    /\ cpu = Idle
-----------------------------------------------------------------------------
Begins == changes < MaxChanges /\ changes' = changes + 1

(* The payload, whenever the emulator applies its cheats.                  *)

ApplyPnach ==
    /\ written' = written \cup {"handler"}
    /\ site' = [site EXCEPT !["first"] = "handler"]
    /\ UNCHANGED <<ring, writers, cpu>>

(* The tools: install and restore.                                         *)

InstallOrder_SiteFirst == <<"site", "code", "ring">>     \* mutant

InstallOrder == <<"code", "ring", "site">>

\* Nothing is written where something else is found, or it is there already.
Install(t) ==
    /\ job[t] = <<>>
    /\ site[t] = Original[t]
    /\ Begins
    /\ job' = [job EXCEPT ![t] = InstallOrder]
    /\ UNCHANGED <<memory, manager, active, careless, cpu>>

\* The second site's tool puts the call back whatever it finds.
Restore(t) ==
    /\ job[t] = <<>>
    /\ t = "second" \/ site[t] = Trampoline[t]
    /\ Begins
    /\ job' = [job EXCEPT ![t] = <<"back">>]
    /\ UNCHANGED <<memory, manager, active, careless, cpu>>

Write(t) ==
    /\ job[t] # <<>>
    /\ job' = [job EXCEPT ![t] = Tail(@)]
    /\ LET step == Head(job[t])
           ours == Trampoline[t]
       IN
       /\ written' = IF step = "code" THEN written \cup {ours} ELSE written
       /\ ring' = IF step = "ring" THEN [ring EXCEPT ![RingOf(ours)] = EmptyRing]
                                   ELSE ring
       /\ site' = [site EXCEPT ![t] = CASE step = "site" -> ours
                                        [] step = "back" -> Original[t]
                                        [] OTHER -> @]
    /\ UNCHANGED <<manager, active, careless, changes, cpu>>

\* A write raises, or the tool is stopped.
Fail(t) ==
    /\ job[t] # <<>>
    /\ job' = [job EXCEPT ![t] = <<>>]
    /\ UNCHANGED <<memory, manager, active, careless, changes, cpu>>

(* HookManager, and patch_jal, which expects nothing.  A handler is a       *)
(* routine for calls that is in memory already.                            *)

Matches_Anything(s, expected) == TRUE        \* mutant: what is there is not compared

Matches(s, expected) == expected = "not given" \/ site[s] = expected

Redirects(s, handler, expected) ==
    /\ manager = <<>>
    /\ handler \in written \ {"probe"}
    /\ Begins
    /\ Matches(s, expected)
    /\ manager' = <<[site |-> s, original |-> site[s], handler |-> handler]>>
    /\ careless' = (careless \/ expected = "not given")
    /\ UNCHANGED <<memory, job, active, cpu>>

\* Refused where no JAL stands: at the entry, unless somebody has put one there.
HoldsJal(s) == site[s] # "display"

ManagerReads(s, handler, expected) == HoldsJal(s) /\ Redirects(s, handler, expected)

\* patch_jal warns of such a word and patches it; it keeps what it replaces as
\* well, and restore_jal puts it back.
PatchJal(s, handler) == Redirects(s, handler, "not given")

ManagerWrites ==
    /\ manager # <<>>
    /\ LET m == manager[1] IN
       /\ site' = [site EXCEPT ![m.site] = m.handler]
       /\ active' = [s \in DOMAIN active \cup {m.site} |->
                       IF s = m.site THEN m.original ELSE active[s]]
    /\ manager' = <<>>
    /\ UNCHANGED <<written, ring, job, careless, changes, cpu>>

\* restore; restore_all is one of these after another.
ManagerRestores(s) ==
    /\ manager = <<>>
    /\ s \in DOMAIN active
    /\ site' = [site EXCEPT ![s] = active[s]]
    /\ active' = Restrict(active, DOMAIN active \ {s})
    /\ UNCHANGED <<written, ring, job, manager, careless, changes, cpu>>
-----------------------------------------------------------------------------
(* The game's processor, one step of the routine it is in.                 *)

Routine == cpu.pc[1]
Step == IF cpu.pc = Home \/ cpu.pc[2] > Len(Steps[Routine]) THEN "none"
                                                            ELSE Steps[Routine][cpu.pc[2]]
Next1 == <<Routine, cpu.pc[2] + 1>>
Computes(to) == cpu' = to /\ UNCHANGED <<memory, writers>>

\* A JAL sets the return address.  Over an entry, which the game has called,
\* it replaces the address by the entry's own third instruction.
Call(s) ==
    /\ cpu.site = "none" /\ cpu.number < MaxCalls
    /\ Computes([Idle EXCEPT !.pc = <<site[s], 1>>, !.site = s,
                             !.number = cpu.number + 1,
                             !.ra = IF s = "entry" /\ site[s] # "display"
                                    THEN <<"display", 3>> ELSE Home])

\* jalr: a routine named as a step.
Jalr ==
    /\ Step \in DOMAIN Steps
    /\ Computes([cpu EXCEPT !.ra = Next1, !.pc = <<Step, 1>>])

PushedRa_Late == Next1                       \* mutant: saves what jalr will set

PushedRa == cpu.ra

Push ==
    /\ Step = "push"
    /\ Computes([cpu EXCEPT !.stack = Append(@, PushedRa), !.pc = Next1])

KeepRa ==
    /\ Step = "keep_ra" /\ cpu.stack # <<>>
    /\ Computes([cpu EXCEPT !.stack = Append(Front(@), cpu.ra), !.pc = Next1])

Pop ==
    /\ Step = "pop" /\ cpu.stack # <<>>
    /\ Computes([cpu EXCEPT !.ra = Last(cpu.stack), !.stack = Front(@), !.pc = Next1])

Return ==
    /\ Step = "return"
    /\ Computes(IF cpu.ra = Home THEN [Idle EXCEPT !.number = cpu.number]
                                 ELSE [cpu EXCEPT !.pc = cpu.ra])

\* The callee, and the body of the display function: what they are given is
\* noted, what a callee may change is lost.
Work ==
    /\ Step \in {"work", "body"}
    /\ Computes([cpu EXCEPT !.visits = Append(@, <<Routine, cpu.args>>),
                            !.args = IF Step = "work" THEN "lost" ELSE @,
                            !.pc = Next1])

\* The display probe: ra and the context to two fixed words, a call of the
\* game's index function, S0 to S4 as work registers; ra and the context
\* again, the entry's first instruction, and a jump to its second one.
Stash == Step = "stash" /\ Computes([cpu EXCEPT !.scratch = <<cpu.ra>>, !.pc = Next1])
Index == Step = "index" /\ Computes([cpu EXCEPT !.args = "lost", !.saved = "lost", !.pc = Next1])
Unstash ==
    /\ Step = "unstash"
    /\ Computes([cpu EXCEPT !.ra = cpu.scratch[1], !.args = "given", !.pc = Next1])
Resume == Step = "resume" /\ Computes([cpu EXCEPT !.pc = <<"display", 2>>])

AfterStore_InA0 == [cpu EXCEPT !.args = "lost", !.pc = Next1]   \* mutant

\* T8, T9 and AT are the trampolines' work registers.
AfterStore == [cpu EXCEPT !.pc = Next1]

\* Three stores to a ring; an installation may zero it in between.
Store ==
    LET r == ring[RingOf(Routine)] IN
    /\ Step \in {"count", "head", "record"}
    /\ ring' = [ring EXCEPT ![RingOf(Routine)] =
                  CASE Step = "count" -> [r EXCEPT !.count = @ + 1]
                    [] Step = "head" -> [r EXCEPT !.head = (@ + 1) % REC_COUNT]
                    [] Step = "record" ->
                         [r EXCEPT !.slots[r.head] = cpu.number,
                                   !.log = Append(@, cpu.number)]]
    /\ cpu' = AfterStore
    /\ UNCHANGED <<site, written, writers>>

Execute == \/ Jalr \/ Push \/ KeepRa \/ Pop \/ Return \/ Work
           \/ Stash \/ Index \/ Unstash \/ Resume \/ Store

Next ==
    \/ ApplyPnach \/ ManagerWrites \/ Execute
    \/ \E t \in Tools : Install(t) \/ Restore(t) \/ Write(t) \/ Fail(t)
    \/ \E s \in Sites :
          \/ Call(s) \/ ManagerRestores(s)
          \/ \E h \in written :
                \/ \E e \in {"SetCarCfg", "not given"} : ManagerReads(s, h, e)
                \/ PatchJal(s, h)

Spec == Init /\ [][Next]_vars

\* The game runs whatever the tools do.
FairSpec == Spec /\ WF_vars(Execute)
-----------------------------------------------------------------------------
(* What the status commands show of a ring.                                *)

Recent_FromNext(r) ==                        \* mutant: head taken for the next slot
    [k \in 1..Min({r.count, REC_COUNT}) |-> r.slots[(r.head - k) % REC_COUNT]]

\* DisplayProbeRing.recent: the newest first.
Recent(r) ==
    [k \in 1..Min({r.count, REC_COUNT}) |->
        r.slots[(r.head - (k - 1)) % REC_COUNT]]

\* cmd_status of the other two: every slot that is not all zero.
Status(r) == {r.slots[s] : s \in Slots} \ {0}

\* A trampoline has counted a record into that ring and not yet stored it.
Storing(name) == Step \in {"head", "record"} /\ RingOf(Routine) = name

(* The game never jumps to an address where our code is not yet written.   *)
JumpsIntoCode ==
    \A s \in Sites : site[s] \in written \cup GameRoutines

(* Whatever is installed, chained, restored or left half done, and whenever *)
(* that happens: a call of SetCarCfg reaches it once, with the caller's    *)
(* arguments ("a0-a3 must reach the real callee untouched"), and comes     *)
(* back with the caller's registers and stack.                             *)
CallsAreTransparent ==
    [][\A s \in CallSites :
          (cpu.site = s /\ cpu'.site = "none") =>
             /\ cpu.visits = <<<<"SetCarCfg", "given">>>>
             /\ cpu.stack = <<>> /\ cpu.saved = "kept"]_vars

(* Every call that goes to SetCarCfg comes back: chained trampolines never  *)
(* return into themselves.                                                 *)
CallsComeBack == (cpu.site \in CallSites) ~> (cpu.site = "none")

(* The redirections HookManager makes with the expected original given are  *)
(* undone by its restore: the site calls SetCarCfg again, and not what an   *)
(* earlier redirection put there.                                          *)
RestoreUndoes ==
    [][\A s \in CallSites :
          (~careless /\ ManagerRestores(s)) => site'[s] = "SetCarCfg"]_vars

(* Whoever looks at a ring while no trampoline is between its stores to it, *)
(* and no installation zeroed it there, sees the last calls it logged: the  *)
(* status of the two tools of SetCarCfg each of them, the reader of the     *)
(* probe's ring the newest first.  (That ring gets a record of one call and *)
(* no more: through the probe, a call of the entry does not come back.)     *)
RingsShowTheLatest ==
    \A name \in DOMAIN ring :
       LET r == ring[name]
           n == Min({Len(r.log), REC_COUNT})
       IN (~Storing(name) /\ r.count = Len(r.log)) =>
             /\ name = "cfg" =>
                   Status(r) = {r.log[i] : i \in (Len(r.log) - n + 1)..Len(r.log)}
             /\ name = "display" =>
                   Recent(r) = [k \in 1..n |-> r.log[Len(r.log) - k + 1]]
=============================================================================
