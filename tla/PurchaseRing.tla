---------------------------- MODULE PurchaseRing ----------------------------
(***************************************************************************)
(* Dealer purchases as the client learns of them (mc3api/purchase_hook.py, *)
(* tools/hook_purchase.py): the DETECT trampoline appends a record to a    *)
(* ring in the game's memory one store at a time, and PurchaseRing.drain   *)
(* reads count, head and the records in separate reads from another        *)
(* process.  Neither waits for the other.                                  *)
(*                                                                         *)
(* A purchase is its number.  A record's fields hold the number of the     *)
(* purchase they were written for (ordinal: the ring's own counter), so a  *)
(* record that mixes two purchases is seen as such.  0 is a zeroed field.  *)
(* count stays far below its 32 bits.                                      *)
(***************************************************************************)
EXTENDS Integers, Sequences, FiniteSetsExt

CONSTANTS
    REC_COUNT,       \* records the ring holds
    MaxPurchases,    \* bound: purchases the player makes
    MaxInstalls      \* bound: times the hook is installed again

ASSUME RingAssumption == REC_COUNT \in Nat \ {0}
ASSUME BoundsAssumption == MaxPurchases \in Nat /\ MaxInstalls \in Nat

VARIABLES
    \* game memory
    site,                 \* what the call site at DETECT_SITE jumps to
    count, head, slots,   \* the ring
    \* game
    bought,               \* purchases made
    tramp,                \* the trampoline's next store, or "out"
    slot,                 \* its register with the record's slot
    installs,             \* times the hook was installed again
    \* client
    pc,                   \* where drain() is, "off" before __init__
    seen,                 \* PurchaseRing._seen
    c, h, k, out,         \* drain()'s count, head, k and out
    \* history
    recorded,             \* purchases recorded since the ring was zeroed
    overlap,              \* has the ring moved under the current drain()?
    upset,                \* has it ever, or has reading count ever failed?
    yielded, twice,       \* purchases returned by drain() (more than once)
    owed,                 \* purchases recorded while the client is attached
                          \* that no drain() has answered for yet
    later,                \* how many of them the current drain() came too early for
    lapse                 \* why _seen may not be what was counted at the last drain()

ring == <<count, head, slots>>
game == <<bought, tramp, slot>>
drain == <<pc, seen, c, h, k, out>>
history == <<overlap, upset, yielded, twice>>
account == <<owed, later, lapse>>
vars == <<site, ring, game, installs, drain, recorded, history, account>>
-----------------------------------------------------------------------------
Fields == {"recptr", "amount", "wallet", "ordinal"}
Purchases == 0..MaxPurchases
Record(purchase, ordinal) ==
    [f \in Fields |-> IF f = "ordinal" THEN ordinal ELSE purchase]
Zeroed == [s \in 0..(REC_COUNT - 1) |-> Record(0, 0)]

\* The order of the trampoline's stores.
Stores == <<"count", "head", "recptr", "amount", "wallet", "ordinal", "out">>
StoreAfter(s) == CHOOSE t \in Range(Stores) :
    \E i \in 1..6 : Stores[i] = s /\ Stores[i + 1] = t

TypeOK ==
    /\ site \in {"SpendMoney", "trampoline"}
    /\ count \in Purchases
    /\ head \in 0..(REC_COUNT - 1)
    /\ slots \in [0..(REC_COUNT - 1) -> [Fields -> Purchases]]
    /\ bought \in Purchases
    /\ tramp \in Range(Stores)
    /\ slot \in 0..(REC_COUNT - 1)
    /\ installs \in 0..MaxInstalls
    /\ pc \in {"off", "idle", "head", "record"}
    /\ seen \in Purchases
    /\ c \in Purchases
    /\ h \in 0..(REC_COUNT - 1)
    /\ k \in 0..REC_COUNT
    /\ out \in Seq([Fields -> Purchases])
    /\ Len(out) <= REC_COUNT
    /\ recorded \in Seq(Purchases)
    /\ overlap \in {"no", "yes"} /\ upset \in {"no", "yes"}
    /\ yielded \in SUBSET Purchases /\ twice \in SUBSET yielded
    /\ owed \in Seq(Purchases) /\ later \in Purchases
    /\ lapse \in {"no", "misread", "zeroed", "zeroed_midway"}

Init ==
    /\ site = "trampoline" /\ installs = 0
    /\ count = 0 /\ head = 0 /\ slots = Zeroed
    /\ bought = 0 /\ tramp = "out" /\ slot = 0
    /\ pc = "off" /\ seen = 0 /\ c = 0 /\ h = 0 /\ k = 0 /\ out = <<>>
    /\ recorded = <<>>
    /\ overlap = "no" /\ upset = "no" /\ yielded = {} /\ twice = {}
    /\ owed = <<>> /\ later = 0 /\ lapse = "no"
-----------------------------------------------------------------------------
(* The game.                                                               *)

\* Anything that moves the ring during a drain() makes it an overlapped one.
Disturb ==
    /\ overlap' = IF pc \in {"head", "record"} THEN "yes" ELSE overlap
    /\ upset' = IF pc \in {"head", "record"} THEN "yes" ELSE upset
    /\ UNCHANGED <<yielded, twice>>

\* A confirmed purchase calls whatever the site jumps to.
Buy ==
    /\ tramp = "out"
    /\ bought < MaxPurchases
    /\ bought' = bought + 1
    /\ tramp' = IF site = "trampoline" THEN "count" ELSE "out"
    /\ Disturb
    /\ UNCHANGED <<site, ring, slot, installs, drain, recorded, account>>

StoreCount ==
    /\ tramp = "count"
    /\ count' = count + 1
    /\ recorded' = Append(recorded, bought)
    /\ tramp' = StoreAfter(tramp)
    /\ owed' = IF pc = "off" THEN owed ELSE Append(owed, bought)
    /\ later' = IF pc \in {"head", "record"} THEN later + 1 ELSE later
    /\ Disturb
    /\ UNCHANGED <<site, head, slots, bought, slot, installs, drain, lapse>>

NextHead == (head + 1) % REC_COUNT

StoreHead ==
    /\ tramp = "head"
    /\ head' = NextHead
    /\ slot' = head'
    /\ tramp' = StoreAfter(tramp)
    /\ Disturb
    /\ UNCHANGED <<site, count, slots, bought, installs, drain, recorded, account>>

StoreField ==
    /\ tramp \in Fields
    /\ slots' = [slots EXCEPT ![slot][tramp] = Record(bought, count)[tramp]]
    /\ tramp' = StoreAfter(tramp)
    /\ Disturb
    /\ UNCHANGED <<site, count, head, bought, slot, installs, drain, recorded,
                   account>>
-----------------------------------------------------------------------------
(* hook_purchase.py, run by hand beside the game: not within the few       *)
(* instructions of a trampoline.                                           *)

RestoreDetect ==
    /\ site = "trampoline"
    /\ tramp = "out"
    /\ installs < MaxInstalls
    /\ site' = "SpendMoney"
    /\ UNCHANGED <<ring, game, installs, drain, recorded, history, account>>

\* The ring is zeroed before the site is patched.
InstallDetect ==
    /\ site = "SpendMoney"
    /\ installs < MaxInstalls
    /\ installs' = installs + 1
    /\ count' = 0 /\ head' = 0 /\ slots' = Zeroed
    /\ recorded' = <<>>
    /\ site' = "trampoline"
    /\ lapse' = CASE pc = "off" -> lapse
                  [] pc = "idle" -> "zeroed"
                  [] OTHER -> "zeroed_midway"
    /\ Disturb
    /\ UNCHANGED <<game, drain, owed, later>>
-----------------------------------------------------------------------------
(* The client.  _current_count answers 0 when the read fails.              *)

\* PurchaseRing.__init__ (game.py:112 makes one whether or not the hook is in).
Attach(value) ==
    /\ pc = "off"
    /\ pc' = "idle"
    /\ seen' = value
    /\ upset' = IF value = count THEN upset ELSE "yes"
    /\ lapse' = IF value = count THEN "no" ELSE "misread"
    /\ UNCHANGED <<site, ring, game, installs, c, h, k, out, recorded,
                   overlap, yielded, twice, owed, later>>

Fresh(value) == value > seen

Wanted_All(value) == value - seen       \* mutant: forgets the ring's size
Wanted(value) == Min({value - seen, REC_COUNT})

\* Nothing new, or the ring was zeroed.
DrainNothing(value) ==
    /\ pc = "idle"
    /\ ~Fresh(value)
    /\ seen' = value
    /\ out' = <<>>
    /\ upset' = IF value = count THEN upset ELSE "yes"
    /\ IF value = count
       THEN owed' = <<>> /\ lapse' = "no"
       ELSE /\ lapse' = (IF lapse = "no" THEN "misread" ELSE lapse)
            /\ UNCHANGED owed
    /\ UNCHANGED <<site, ring, game, installs, pc, c, h, k, recorded,
                   overlap, yielded, twice, later>>

SeenMeanwhile_Early == count            \* mutant: moves _seen too early
SeenMeanwhile == seen

DrainCount(value) ==
    /\ pc = "idle"
    /\ Fresh(value)
    /\ c' = value
    /\ k' = Wanted(value)
    /\ out' = <<>>
    /\ pc' = "head"
    /\ seen' = SeenMeanwhile
    /\ overlap' = IF tramp = "out" THEN "no" ELSE "yes"
    /\ upset' = IF tramp = "out" THEN upset ELSE "yes"
    /\ later' = 0
    /\ lapse' = IF lapse = "zeroed_midway" THEN "zeroed" ELSE lapse
    /\ UNCHANGED <<site, ring, game, installs, h, recorded, yielded,
                   twice, owed>>

DrainHead ==
    /\ pc = "head"
    /\ h' = head
    /\ pc' = "record"
    /\ UNCHANGED <<site, ring, game, installs, seen, c, k, out, recorded,
                   history, account>>

SlotOf_OffByOne == (h - k) % REC_COUNT  \* mutant: forgets the + 1
SlotOf == (h - k + 1) % REC_COUNT

DrainRecord ==
    /\ pc = "record"
    /\ k > 0
    /\ out' = Append(out, slots[SlotOf])
    /\ k' = k - 1
    /\ UNCHANGED <<site, ring, game, installs, pc, seen, c, h, recorded,
                   history, account>>

\* drain() returns: the caller has the purchases.
DrainReturns ==
    LET got == {out[i]["recptr"] : i \in DOMAIN out}
        repeated == {p \in got : Cardinality({i \in DOMAIN out :
                                                 out[i]["recptr"] = p}) > 1}
    IN
    /\ pc = "record"
    /\ k = 0
    /\ seen' = c
    /\ pc' = "idle"
    /\ yielded' = yielded \cup got
    /\ twice' = twice \cup repeated \cup (yielded \cap got)
    /\ owed' = SubSeq(owed, Len(owed) - later + 1, Len(owed))
    /\ lapse' = IF lapse = "zeroed_midway" THEN "zeroed" ELSE "no"
    /\ UNCHANGED <<site, ring, game, installs, c, h, k, out, recorded,
                   overlap, upset, later>>

\* A failing read of head or of a record raises out of drain().
DrainRaises ==
    /\ pc \in {"head", "record"}
    /\ pc = "record" => k > 0
    /\ pc' = "idle"
    /\ out' = <<>>
    /\ UNCHANGED <<site, ring, game, installs, seen, c, h, k, recorded,
                   history, account>>

ReadOk == Attach(count) \/ DrainNothing(count) \/ DrainCount(count)
ReadFails == Attach(0) \/ DrainNothing(0)
-----------------------------------------------------------------------------
Trampoline == StoreCount \/ StoreHead \/ StoreField
Tool == RestoreDetect \/ InstallDetect
Drain == ReadOk \/ DrainHead \/ DrainRecord \/ DrainReturns

Next == Buy \/ Trampoline \/ Tool \/ Drain \/ ReadFails \/ DrainRaises

Spec == Init /\ [][Next]_vars

\* The emulator runs on and the client polls for ever.  Reading the memory of
\* a running emulator may fail for a while (a load, a pause), not for ever.
Fairness ==
    /\ WF_vars(Trampoline)
    /\ WF_vars(Drain)
    /\ <>[][~(ReadFails \/ DrainRaises)]_vars

FairSpec == Spec /\ Fairness
-----------------------------------------------------------------------------
LastOf(s, n) == SubSeq(s, Len(s) - n + 1, Len(s))
Purchased(s) == [i \in DOMAIN s |-> s[i]["recptr"]]
Intact(rec) == rec["recptr"] = rec["amount"] /\ rec["recptr"] = rec["wallet"]

(* "Return purchases recorded since the last drain (oldest first)": a       *)
(* drain() during which the ring does not move returns whole records,       *)
(* numbered as the trampoline numbered them, of the newest purchases; and   *)
(* those owed to the client are among them, of more than REC_COUNT the      *)
(* newest, and no other unless the counter was misread before.  A drain()   *)
(* that returns nothing owes nothing.  Both but for one thing: after the    *)
(* ring was zeroed under the reader, purchases are lost, since _seen is     *)
(* ahead of the new count (purchase_hook.py:73).                            *)
UndisturbedDrainIsExact ==
    [][/\ (DrainReturns /\ overlap = "no") =>
             LET due == Min({Len(owed), REC_COUNT}) IN
             /\ Purchased(out) = LastOf(recorded, Len(out))
             /\ \A i \in DOMAIN out :
                   Intact(out[i]) /\ out[i]["ordinal"] = c - Len(out) + i
             /\ lapse # "zeroed" =>
                   Len(out) >= due /\ LastOf(Purchased(out), due) = LastOf(owed, due)
             /\ lapse = "no" => Len(out) = due
       /\ (DrainNothing(count) /\ lapse \in {"no", "misread"}) => owed = <<>>]_vars

(* Only a ring that moved under a drain(), or a failed read of the counter, *)
(* makes drain() return a purchase again: neither the wraparound, a failed  *)
(* read of a record, nor an installation of the hook does.                  *)
RepeatsOnlyWhenUpset == upset = "no" => twice = {}

(* The newest purchase of a ring at rest is returned, or a newer one takes  *)
(* its place, however many reads fail on the way (_seen moves last).        *)
NewestIsYielded ==
    \A p \in 1..MaxPurchases :
       LET newest == recorded # <<>> /\ recorded[Len(recorded)] = p
       IN (pc = "idle" /\ tramp = "out" /\ count > seen /\ newest)
             ~> (p \in yielded \/ ~newest)
=============================================================================
