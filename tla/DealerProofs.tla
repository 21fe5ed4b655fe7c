---------------------------- MODULE DealerProofs ----------------------------
(***************************************************************************)
(* The dealer's two hooks.  The purchase ring, for every size of ring and  *)
(* every number of purchases: what a drain() nobody disturbs returns, and  *)
(* that nothing but a ring that moved or a counter that could not be read  *)
(* makes it return a purchase again.  The deny gate, for every set of      *)
(* vehicles and every number of configurations: what is let through or     *)
(* denied was asked for, whoever writes meanwhile and wherever it fails.   *)
(***************************************************************************)
EXTENDS PurchaseRing, PermitGate, Arithmetic, TLAPS
-----------------------------------------------------------------------------
(* The trampoline's stores, one by one.                                    *)
LEMMA StoreOrder ==
  /\ StoreAfter("count") = "head" /\ StoreAfter("head") = "recptr"
  /\ StoreAfter("recptr") = "amount" /\ StoreAfter("amount") = "wallet"
  /\ StoreAfter("wallet") = "ordinal" /\ StoreAfter("ordinal") = "out"
<1>1. /\ Stores[1] = "count" /\ Stores[2] = "head" /\ Stores[3] = "recptr"
      /\ Stores[4] = "amount" /\ Stores[5] = "wallet"
      /\ Stores[6] = "ordinal" /\ Stores[7] = "out"
  BY DEF Stores
<1>2. DOMAIN Stores = 1..7
  BY DEF Stores
<1>3. ASSUME NEW i \in 1..6 PROVE StoreAfter(Stores[i]) = Stores[i + 1]
  <2>1. 1..6 = {1, 2, 3, 4, 5, 6} /\ i + 1 \in 1..7
    OBVIOUS
  <2>2. Stores[i + 1] \in Range(Stores)
    BY <1>2, <2>1 DEF Range
  <2>3. \A j \in 1..6 : Stores[j] = Stores[i] => j = i
    BY <1>1, <2>1
  <2> QED BY <2>2, <2>3 DEF StoreAfter
<1>4. /\ StoreAfter(Stores[1]) = Stores[1 + 1] /\ StoreAfter(Stores[2]) = Stores[2 + 1]
      /\ StoreAfter(Stores[3]) = Stores[3 + 1] /\ StoreAfter(Stores[4]) = Stores[4 + 1]
      /\ StoreAfter(Stores[5]) = Stores[5 + 1] /\ StoreAfter(Stores[6]) = Stores[6 + 1]
  BY <1>3
<1> QED BY <1>1, <1>4
-----------------------------------------------------------------------------
(* The game's side.                                                        *)
Types ==
  /\ bought \in Nat /\ recorded \in Seq(Nat)
  /\ tramp \in {"count", "head", "recptr", "amount", "wallet", "ordinal",
                "out"}
  /\ slots \in [0..(REC_COUNT - 1) -> [Fields -> Nat]]

\* The counter counts the purchases, and the head follows it.
Counted ==
  /\ site = "SpendMoney" => tramp = "out"
  /\ count = Len(recorded)
  /\ tramp # "head" => head = count % REC_COUNT
  /\ tramp = "head" => count >= 1 /\ head = (count - 1) % REC_COUNT
  /\ tramp \in Fields => slot = head

\* Purchases are recorded in their order, the last one while it is made.
Rising ==
  /\ \A i, j \in 1..Len(recorded) : i < j => recorded[i] < recorded[j]
  /\ \A i \in 1..Len(recorded) : recorded[i] <= bought
  /\ tramp = "count" => \A i \in 1..Len(recorded) : recorded[i] < bought
  /\ tramp \in Fields \cup {"head"} =>
        Len(recorded) >= 1 /\ recorded[Len(recorded)] = bought

\* The ring has the last REC_COUNT of them, but for what is being written.
Finished(i) == i < count \/ tramp \in {"out", "count"}
Held ==
  \A i \in 1..count :
     count - i < REC_COUNT /\ Finished(i)
       => slots[i % REC_COUNT] = Record(recorded[i], i)
Written ==
  /\ tramp \in {"amount", "wallet", "ordinal"}
       => slots[slot]["recptr"] = bought
  /\ tramp \in {"wallet", "ordinal"} => slots[slot]["amount"] = bought
  /\ tramp = "ordinal" => slots[slot]["wallet"] = bought

RingInv == Types /\ Counted /\ Rising /\ Held /\ Written

(* The client's side.  During a drain() that nothing disturbed, out has the *)
(* records it should return, oldest first, as far as it got.               *)
Draining == pc \in {"head", "record"}
First == c - Wanted(c)
Exact ==
  /\ tramp = "out" /\ c = count /\ seen < c
  /\ out \in Seq([Fields -> Nat])
  /\ k \in Nat /\ Len(out) + k = Wanted(c)
  /\ pc = "head" => out = <<>>
  /\ pc = "record" => h = head
  /\ \A j \in 1..Len(out) : out[j] = Record(recorded[First + j], First + j)

DrainInv ==
  /\ pc \in {"off", "idle", "head", "record"}
  /\ seen \in Nat /\ c \in Nat
  /\ Draining /\ overlap = "no" => Exact

\* Whatever was returned is older than what the next drain() will read.
Older ==
  /\ twice = {}
  /\ Draining => overlap = "no"
  /\ \A p \in yielded :
       /\ p \in Nat /\ p <= bought /\ (tramp = "count" => p < bought)
       /\ \A i \in 1..Len(recorded) : seen < i => p < recorded[i]

OnceInv == upset = "no" => Older

(* What is owed to the client are the last purchases recorded, as many as   *)
(* _seen is behind; those the current drain() came too early for are the   *)
(* last of them.  Until the ring is zeroed under the reader.               *)
Agree(s, t, n) ==
  /\ n <= Len(s) /\ n <= Len(t)
  /\ \A i \in 0..(n - 1) : s[Len(s) - i] = t[Len(t) - i]
Settled ==
  /\ Agree(owed, recorded, Len(owed)) /\ seen + Len(owed) <= Len(recorded)
  /\ lapse = "no" => seen + Len(owed) = Len(recorded)
Pending ==
  /\ later <= Len(owed)
  /\ lapse # "zeroed_midway" =>
        Agree(owed, recorded, later) /\ later + c = Len(recorded)
  /\ overlap = "no" => later = 0 /\ lapse # "zeroed_midway"

AccountInv ==
  /\ owed \in Seq(Nat) /\ later \in Nat
  /\ lapse \in {"no", "misread", "zeroed", "zeroed_midway"}
  /\ pc = "off" => owed = <<>>
  /\ pc # "off" /\ lapse \in {"no", "misread"} => Settled
  /\ Draining => Pending

INV == RingInv /\ DrainInv /\ OnceInv /\ AccountInv
-----------------------------------------------------------------------------
LEMMA FieldNames ==
  Fields = {"recptr", "amount", "wallet", "ordinal"}
BY DEF Fields

LEMMA RecordType ==
  ASSUME NEW p \in Nat, NEW o \in Nat
  PROVE  /\ Record(p, o) \in [Fields -> Nat]
         /\ \A f \in Fields : Record(p, o)[f] = IF f = "ordinal" THEN o ELSE p
BY DEF Record

\* The last purchases of a sequence of them.
LEMMA LastOfIs ==
  ASSUME NEW s \in Seq(Nat), NEW n \in 0..Len(s)
  PROVE  /\ LastOf(s, n) \in Seq(Nat) /\ Len(LastOf(s, n)) = n
         /\ \A i \in 1..n : LastOf(s, n)[i] = s[Len(s) - n + i]
         /\ LastOf(s, n) = [i \in 1..n |-> s[Len(s) - n + i]]
<1> DEFINE w == Len(s)
           m == w - n + 1
           last == SubSeq(s, m, w)
<1>1. /\ m \in Int /\ w \in Int /\ n \in Nat /\ m <= w + 1 /\ 1 <= m
      /\ (m <= w => w - m + 1 = n) /\ (~(m <= w) => n = 0)
  OBVIOUS
<1>2. \A i \in m..w : s[i] \in Nat
  OBVIOUS
<1>3. \A i \in 1..n : m + i - 1 = w - n + i
  OBVIOUS
<1> HIDE DEF m
<1>4. /\ last \in Seq(Nat) /\ Len(last) = n
      /\ \A i \in 1..n : last[i] = s[m + i - 1]
  BY <1>1, <1>2, SubSeqProperties
<1>5. last = LastOf(s, n) /\ w = Len(s)
  BY DEF LastOf, m
<1> HIDE DEF last, w
<1>6. last = [i \in 1..n |-> s[w - n + i]]
  <2>1. \A i \in 1..n : last[i] = s[w - n + i]
    BY <1>3, <1>4
  <2> QED BY <1>4, <2>1
<1> QED BY <1>3, <1>4, <1>5, <1>6

LEMMA IsSequence ==
  ASSUME NEW n \in Nat, NEW f \in [1..n -> Nat]
  PROVE  f \in Seq(Nat) /\ Len(f) = n
OBVIOUS

LEMMA InitINV == Init => INV
<1> SUFFICES ASSUME Init PROVE INV
  OBVIOUS
<1>1. REC_COUNT \in Nat \ {0}
  BY RingAssumption
<1>2. 0 % REC_COUNT = 0
  <2>1. REC_COUNT * 0 + 0 = 0 /\ 0 \in 0..(REC_COUNT - 1)
    BY <1>1
  <2> QED BY <1>1, <2>1, Remainder
<1>3. Types
  BY RecordType DEF Init, Types, Zeroed
<1>4. Counted
  BY <1>2 DEF Init, Counted, Fields
<1>5. Rising /\ Held /\ Written
  BY DEF Init, Rising, Held, Written, Fields
<1>6. DrainInv
  BY DEF Init, DrainInv, Draining
<1>7. OnceInv
  BY DEF Init, OnceInv, Older, Draining
<1>8. AccountInv
  BY DEF Init, AccountInv, Draining
<1> QED BY <1>3, <1>4, <1>5, <1>6, <1>7, <1>8 DEF INV, RingInv

(* A step that leaves the ring and the game alone keeps what the ring has.  *)
LEMMA RingInvSame ==
  ASSUME RingInv, UNCHANGED <<ring, game, recorded>>,
         site' = "SpendMoney" => tramp' = "out"
  PROVE  RingInv'
BY DEF RingInv, Types, Counted, Rising, Held, Written, Finished, ring, game

LEMMA RingInvBuy == RingInv /\ Buy => RingInv'
<1> SUFFICES ASSUME RingInv, Buy PROVE RingInv'
  OBVIOUS
<1> USE DEF RingInv
<1>1. /\ tramp = "out" /\ bought' = bought + 1
      /\ tramp' = IF site = "trampoline" THEN "count" ELSE "out"
      /\ UNCHANGED <<site, count, head, slots, slot, recorded>>
  BY DEF Buy, ring
<1>2. Types'
  BY <1>1 DEF Types
<1>3. Counted'
  BY <1>1 DEF Counted, Fields
<1>4. Rising'
  <2>1. \A i \in 1..Len(recorded) : recorded[i] \in Nat /\ recorded[i] <= bought
    BY DEF Types, Rising
  <2>2. \A i \in 1..Len(recorded) : recorded[i] < bought + 1 /\ recorded[i] <= bought + 1
    BY <2>1 DEF Types
  <2> QED BY <1>1, <2>2 DEF Rising, Fields
<1>5. Held' /\ Written'
  BY <1>1 DEF Held, Written, Finished, Types
<1> QED BY <1>2, <1>3, <1>4, <1>5

LEMMA RingInvStoreCount == RingInv /\ StoreCount => RingInv'
<1> SUFFICES ASSUME RingInv, StoreCount PROVE RingInv'
  OBVIOUS
<1> USE DEF RingInv
<1>1. /\ tramp = "count" /\ tramp' = "head" /\ count' = count + 1
      /\ recorded' = Append(recorded, bought)
      /\ UNCHANGED <<site, head, slots, slot, bought>>
  BY StoreOrder DEF StoreCount
<1> DEFINE n == Len(recorded)
<1>2. /\ recorded' \in Seq(Nat) /\ Len(recorded') = n + 1 /\ n \in Nat
      /\ recorded'[n + 1] = bought
      /\ \A i \in 1..n : recorded'[i] = recorded[i] /\ recorded[i] \in Nat
  BY <1>1 DEF Types
<1>3. Types'
  BY <1>1, <1>2 DEF Types
<1>4. count = n /\ site # "SpendMoney" /\ head = count % REC_COUNT
  BY <1>1 DEF Counted
<1> HIDE DEF n
<1>5. Counted'
  BY <1>1, <1>2, <1>4 DEF Counted, Fields
<1>6. \A i \in 1..n : recorded[i] < bought
  BY <1>1 DEF Rising, n
<1>7. Rising'
  <2>1. \A i, j \in 1..n : i < j => recorded[i] < recorded[j]
    BY DEF Rising, n
  <2>2. \A i \in 1..(n + 1) : i \in 1..n \/ i = n + 1
    BY <1>2
  <2>3. bought \in Nat
    BY DEF Types
  <2>4. \A i \in 1..(n + 1) : recorded'[i] <= bought
    BY <1>2, <1>6, <2>2, <2>3
  <2>5. \A i, j \in 1..(n + 1) : i < j => recorded'[i] < recorded'[j]
    BY <1>2, <1>6, <2>1, <2>2
  <2> QED BY <1>1, <1>2, <2>4, <2>5 DEF Rising
<1>8. Held'
  <2> SUFFICES ASSUME NEW i \in 1..count', count' - i < REC_COUNT, Finished(i)'
               PROVE  slots'[i % REC_COUNT] = Record(recorded'[i], i)
    BY DEF Held
  <2>1. i < n + 1
    BY <1>1, <1>4 DEF Finished
  <2>2. i \in 1..count /\ count - i < REC_COUNT /\ Finished(i)
    BY <1>1, <1>2, <1>4, <2>1, RingAssumption DEF Finished
  <2>3. recorded'[i] = recorded[i]
    BY <1>2, <1>4, <2>2
  <2> QED BY <1>1, <2>2, <2>3 DEF Held
<1>9. Written'
  BY <1>1 DEF Written
<1> QED BY <1>3, <1>5, <1>7, <1>8, <1>9

LEMMA RingInvStoreHead == RingInv /\ StoreHead => RingInv'
<1> SUFFICES ASSUME RingInv, StoreHead PROVE RingInv'
  OBVIOUS
<1> USE DEF RingInv
<1>1. /\ tramp = "head" /\ tramp' = "recptr"
      /\ head' = (head + 1) % REC_COUNT /\ slot' = head'
      /\ UNCHANGED <<site, count, slots, bought, recorded>>
  BY StoreOrder DEF StoreHead, NextHead
<1>2. head' = count % REC_COUNT
  <2>1. head = (count - 1) % REC_COUNT /\ count >= 1 /\ count \in Int
    BY <1>1 DEF Counted, Types
  <2> DEFINE a == count - 1
             b == 1
  <2>2. /\ a \in Int /\ b \in Int /\ a + b = count /\ head = a % REC_COUNT
        /\ head' = (head + b) % REC_COUNT
    BY <1>1, <2>1
  <2> HIDE DEF a, b
  <2>3. ((a % REC_COUNT) + b) % REC_COUNT = (a + b) % REC_COUNT
    BY <2>2, ModAdd, RingAssumption
  <2> QED BY <2>2, <2>3
<1>3. Types'
  BY <1>1 DEF Types
<1>4. Counted'
  BY <1>1, <1>2 DEF Counted
<1>5. Rising'
  BY <1>1 DEF Rising, Fields
<1>6. Held' /\ Written'
  BY <1>1 DEF Held, Written, Finished
<1> QED BY <1>3, <1>4, <1>5, <1>6

(* A field lands in the slot of the purchase being recorded; the other      *)
(* slots that count belong to others.                                      *)
LEMMA RingInvStoreField == RingInv /\ StoreField => RingInv'
<1> SUFFICES ASSUME RingInv, StoreField PROVE RingInv'
  OBVIOUS
<1> USE DEF RingInv
<1>1. /\ tramp \in Fields /\ tramp' = StoreAfter(tramp)
      /\ slots' = [slots EXCEPT ![slot][tramp] = Record(bought, count)[tramp]]
      /\ UNCHANGED <<site, count, head, slot, bought, recorded>>
  BY DEF StoreField
<1> DEFINE n == Len(recorded)
<1>2. /\ count = n /\ slot = head /\ head = count % REC_COUNT
      /\ n \in Nat /\ n >= 1 /\ recorded[n] = bought /\ bought \in Nat
  BY <1>1 DEF Counted, Types, Rising, Fields
<1>3. slot \in 0..(REC_COUNT - 1)
  <2>1. count \in Int
    BY <1>2
  <2>2. count % REC_COUNT \in 0..(REC_COUNT - 1)
    BY <2>1, Division, RingAssumption
  <2> QED BY <1>2, <2>2
<1> HIDE DEF n
<1>4. Record(bought, count)[tramp] \in Nat
  BY <1>1, <1>2, RecordType
<1>5. /\ slots' \in [0..(REC_COUNT - 1) -> [Fields -> Nat]]
      /\ \A s \in 0..(REC_COUNT - 1) : s # slot => slots'[s] = slots[s]
      /\ slots'[slot][tramp] = Record(bought, count)[tramp]
      /\ \A f \in Fields : f # tramp => slots'[slot][f] = slots[slot][f]
  <2>1. slots \in [0..(REC_COUNT - 1) -> [Fields -> Nat]]
    BY DEF Types
  <2> QED BY <1>1, <1>3, <1>4, <2>1
<1>6. tramp' \in {"amount", "wallet", "ordinal", "out"}
  BY <1>1, StoreOrder, FieldNames
<1>7. Types'
  BY <1>1, <1>5, <1>6 DEF Types
<1>8. Counted'
  BY <1>1, <1>2, <1>6, FieldNames DEF Counted
<1>9. Rising'
  BY <1>1, <1>6 DEF Rising, Fields
<1>10. \A f \in Fields : Record(bought, count)[f] = IF f = "ordinal" THEN count ELSE bought
  BY <1>2, RecordType
<1>11. Written'
  BY <1>1, <1>5, <1>10, StoreOrder, FieldNames DEF Written
<1>12. tramp' = "out" => slots'[slot] = Record(bought, count)
  <2> SUFFICES ASSUME tramp' = "out" PROVE slots'[slot] = Record(bought, count)
    OBVIOUS
  <2>1. tramp = "ordinal"
    BY <1>1, StoreOrder, FieldNames
  <2>2. /\ slots'[slot]["recptr"] = bought /\ slots'[slot]["amount"] = bought
        /\ slots'[slot]["wallet"] = bought /\ slots'[slot]["ordinal"] = count
    BY <1>5, <1>10, <2>1, FieldNames DEF Written
  <2>3. \A f \in Fields : slots'[slot][f] = Record(bought, count)[f]
    BY <1>10, <2>2, FieldNames
  <2>4. slots'[slot] \in [Fields -> Nat] /\ Record(bought, count) \in [Fields -> Nat]
    BY <1>2, <1>3, <1>5, RecordType
  <2> QED BY <2>3, <2>4
<1>13. Held'
  <2> SUFFICES ASSUME NEW i \in 1..count', count' - i < REC_COUNT, Finished(i)'
               PROVE  slots'[i % REC_COUNT] = Record(recorded'[i], i)
    BY DEF Held
  <2>1. CASE i < count
    <3>1. i \in 1..count /\ count - i < REC_COUNT /\ Finished(i)
      BY <1>1, <2>1 DEF Finished
    <3>2. i % REC_COUNT # slot
      <4>1. i \in Int /\ count \in Int /\ i < count /\ count - i < REC_COUNT
        BY <1>2, <2>1, <3>1
      <4>2. i % REC_COUNT # count % REC_COUNT
        BY <4>1, ModApart, RingAssumption
      <4> QED BY <1>2, <4>2
    <3>3. i % REC_COUNT \in 0..(REC_COUNT - 1)
      BY <3>1, Division, RingAssumption
    <3> QED BY <1>1, <1>5, <3>1, <3>2, <3>3 DEF Held
  <2>2. CASE i = count
    <3>1. tramp' = "out"
      BY <1>1, <1>2, <1>6, <2>2 DEF Finished
    <3> QED BY <1>1, <1>2, <1>12, <2>2, <3>1
  <2> QED BY <1>1, <1>2, <2>1, <2>2
<1> QED BY <1>7, <1>8, <1>9, <1>11, <1>13

(* An installation empties the ring between two purchases.                  *)
LEMMA RingInvInstall == RingInv /\ InstallDetect => RingInv'
<1> SUFFICES ASSUME RingInv, InstallDetect PROVE RingInv'
  OBVIOUS
<1> USE DEF RingInv
<1>1. /\ tramp = "out" /\ site' = "trampoline"
      /\ count' = 0 /\ head' = 0 /\ slots' = Zeroed /\ recorded' = <<>>
      /\ UNCHANGED <<bought, tramp, slot>>
  BY DEF InstallDetect, Counted, game
<1>2. 0 % REC_COUNT = 0
  <2>1. REC_COUNT * 0 + 0 = 0 /\ 0 \in 0..(REC_COUNT - 1)
    BY RingAssumption
  <2> QED BY <2>1, Remainder, RingAssumption
<1>3. Types'
  BY <1>1, RecordType DEF Types, Zeroed
<1>4. Counted'
  BY <1>1, <1>2 DEF Counted, Fields
<1>5. Rising' /\ Held' /\ Written'
  BY <1>1 DEF Rising, Held, Written, Fields
<1> QED BY <1>3, <1>4, <1>5

(* What anything that moves the ring does to a drain() under way.           *)
LEMMA Disturbed ==
  ASSUME Disturb, UNCHANGED drain
  PROVE  /\ Draining' => overlap' = "yes" /\ upset' = "yes"
         /\ ~Draining' => UNCHANGED <<overlap, upset>>
         /\ UNCHANGED <<pc, seen, c, yielded, twice>>
BY DEF Disturb, drain, Draining

LEMMA DrainInvDisturbed == DrainInv /\ Disturb /\ UNCHANGED drain => DrainInv'
<1> SUFFICES ASSUME DrainInv, Disturb, UNCHANGED drain PROVE DrainInv'
  OBVIOUS
<1>1. ~(Draining' /\ overlap' = "no")
  BY Disturbed
<1>2. UNCHANGED <<pc, seen, c>>
  BY Disturbed
<1> QED BY <1>1, <1>2 DEF DrainInv

LEMMA DrainInvSame ==
  ASSUME DrainInv, UNCHANGED <<ring, game, drain, recorded, overlap>>
  PROVE  DrainInv'
BY DEF DrainInv, Draining, Exact, First, Wanted, ring, game, drain

LEMMA OnceInvSame ==
  ASSUME OnceInv, UNCHANGED <<bought, tramp, drain, recorded, history>>
  PROVE  OnceInv'
BY DEF OnceInv, Older, Draining, drain, history

(* The game's steps: what was returned stays older than what is recorded.  *)
LEMMA OnceInvBuy == INV /\ Buy => OnceInv'
<1> SUFFICES ASSUME INV, Buy, upset' = "no" PROVE Older'
  BY DEF OnceInv
<1>1. /\ tramp = "out" /\ bought' = bought + 1 /\ UNCHANGED recorded
      /\ Disturb /\ UNCHANGED drain
  BY DEF Buy
<1>2. ~Draining' /\ UNCHANGED <<seen, yielded, twice>> /\ upset = "no"
  BY <1>1, Disturbed
<1>3. Older /\ bought \in Nat
  BY <1>2 DEF INV, OnceInv, RingInv, Types
<1>4. \A p \in yielded : p <= bought + 1 /\ p < bought + 1
  BY <1>3 DEF Older
<1> QED BY <1>1, <1>2, <1>3, <1>4 DEF Older

LEMMA OnceInvStoreCount == INV /\ StoreCount => OnceInv'
<1> SUFFICES ASSUME INV, StoreCount, upset' = "no" PROVE Older'
  BY DEF OnceInv
<1>1. /\ tramp = "count" /\ tramp' = "head" /\ recorded' = Append(recorded, bought)
      /\ Disturb /\ UNCHANGED <<bought, drain>>
  BY StoreOrder DEF StoreCount
<1>2. ~Draining' /\ UNCHANGED <<seen, yielded, twice>> /\ upset = "no"
  BY <1>1, Disturbed
<1>3. Older /\ recorded \in Seq(Nat) /\ bought \in Nat
  BY <1>2 DEF INV, OnceInv, RingInv, Types
<1> DEFINE n == Len(recorded)
<1>4. /\ n \in Nat /\ Len(recorded') = n + 1 /\ recorded'[n + 1] = bought
      /\ \A i \in 1..n : recorded'[i] = recorded[i]
  BY <1>1, <1>3
<1>5. \A i \in 1..(n + 1) : i \in 1..n \/ i = n + 1
  BY <1>4
<1>6. \A p \in yielded : p < bought /\ \A i \in 1..n : seen < i => p < recorded[i]
  BY <1>1, <1>3 DEF Older
<1> HIDE DEF n
<1>7. \A p \in yielded, i \in 1..(n + 1) : seen < i => p < recorded'[i]
  BY <1>4, <1>5, <1>6
<1> QED BY <1>1, <1>2, <1>3, <1>4, <1>7 DEF Older

LEMMA OnceInvStoreRest == INV /\ (StoreHead \/ StoreField) => OnceInv'
<1> SUFFICES ASSUME INV, StoreHead \/ StoreField, upset' = "no" PROVE Older'
  BY DEF OnceInv
<1>1. /\ tramp' # "count" /\ Disturb /\ UNCHANGED <<bought, drain, recorded>>
  BY StoreOrder, FieldNames DEF StoreHead, StoreField
<1>2. ~Draining' /\ UNCHANGED <<seen, yielded, twice>> /\ upset = "no"
  BY <1>1, Disturbed
<1> QED BY <1>1, <1>2 DEF INV, OnceInv, Older

LEMMA OnceInvInstall == INV /\ InstallDetect => OnceInv'
<1> SUFFICES ASSUME INV, InstallDetect, upset' = "no" PROVE Older'
  BY DEF OnceInv
<1>1. /\ recorded' = <<>> /\ Disturb /\ UNCHANGED <<bought, tramp, drain>>
  BY DEF InstallDetect, game
<1>2. ~Draining' /\ UNCHANGED <<seen, yielded, twice>> /\ upset = "no"
  BY <1>1, Disturbed
<1> QED BY <1>1, <1>2 DEF INV, OnceInv, Older
-----------------------------------------------------------------------------
(* The client's steps.                                                     *)
LEMMA WantedFacts ==
  ASSUME NEW v \in Nat, seen \in Nat, seen < v
  PROVE  /\ Wanted(v) \in 1..REC_COUNT /\ Wanted(v) <= v - seen
         /\ Wanted(v) = Min({v - seen, REC_COUNT})
BY MinOfTwo, RingAssumption DEF Wanted

LEMMA AttachStep ==
  ASSUME INV, NEW value \in Nat, Attach(value)
  PROVE  DrainInv' /\ OnceInv'
<1>1. /\ pc = "off" /\ pc' = "idle" /\ seen' = value
      /\ upset' = IF value = count THEN upset ELSE "yes"
      /\ UNCHANGED <<c, game, recorded, yielded, twice>>
  BY DEF Attach
<1>2. DrainInv'
  BY <1>1 DEF INV, DrainInv, Draining
<1>3. ASSUME upset' = "no" PROVE Older'
  <2>1. upset = "no" /\ seen' = Len(recorded) /\ Len(recorded) \in Nat
    BY <1>1, <1>3 DEF INV, RingInv, Counted, Types
  <2> QED BY <1>1, <2>1 DEF INV, OnceInv, Older, Draining, game
<1> QED BY <1>2, <1>3 DEF OnceInv

LEMMA DrainNothingStep ==
  ASSUME INV, NEW value \in Nat, DrainNothing(value)
  PROVE  DrainInv' /\ OnceInv'
<1>1. /\ pc = "idle" /\ pc' = "idle" /\ seen' = value
      /\ upset' = IF value = count THEN upset ELSE "yes"
      /\ UNCHANGED <<c, game, recorded, yielded, twice>>
  BY DEF DrainNothing
<1>2. DrainInv'
  BY <1>1 DEF INV, DrainInv, Draining
<1>3. ASSUME upset' = "no" PROVE Older'
  <2>1. upset = "no" /\ seen' = Len(recorded) /\ Len(recorded) \in Nat
    BY <1>1, <1>3 DEF INV, RingInv, Counted, Types
  <2> QED BY <1>1, <2>1 DEF INV, OnceInv, Older, Draining, game
<1> QED BY <1>2, <1>3 DEF OnceInv

LEMMA DrainCountStep == INV /\ DrainCount(count) => DrainInv' /\ OnceInv'
<1> SUFFICES ASSUME INV, DrainCount(count) PROVE DrainInv' /\ OnceInv'
  OBVIOUS
<1>1. /\ pc = "idle" /\ pc' = "head" /\ count > seen /\ c' = count
      /\ k' = Wanted(count) /\ out' = <<>> /\ seen' = seen
      /\ overlap' = IF tramp = "out" THEN "no" ELSE "yes"
      /\ upset' = IF tramp = "out" THEN upset ELSE "yes"
      /\ UNCHANGED <<ring, game, recorded, yielded, twice>>
  BY DEF DrainCount, Fresh, SeenMeanwhile
<1>2. seen \in Nat /\ count \in Nat
  BY DEF INV, DrainInv, RingInv, Counted, Types
<1>3. Wanted(count) \in Nat
  <2>1. Wanted(count) \in 1..REC_COUNT
    BY <1>1, <1>2, WantedFacts
  <2> QED BY <2>1, RingAssumption
<1>4. ASSUME overlap' = "no" PROVE Exact'
  <2>1. tramp' = "out" /\ c' = count' /\ seen' < c' /\ pc' = "head"
    BY <1>1, <1>2, <1>4 DEF ring, game
  <2>2. out' \in Seq([Fields -> Nat]) /\ Len(out') = 0
    BY <1>1
  <2>3. Wanted(c)' = Wanted(count)
    BY <1>1 DEF Wanted
  <2>4. k' \in Nat /\ Len(out') + k' = Wanted(c)'
    BY <1>1, <1>3, <2>2, <2>3
  <2> QED BY <1>1, <2>1, <2>2, <2>4 DEF Exact
<1>5. DrainInv'
  BY <1>1, <1>2, <1>4 DEF DrainInv
<1>6. OnceInv'
  BY <1>1 DEF INV, OnceInv, Older, Draining, game
<1> QED BY <1>5, <1>6

LEMMA DrainHeadStep == INV /\ DrainHead => DrainInv' /\ OnceInv'
<1> SUFFICES ASSUME INV, DrainHead PROVE DrainInv' /\ OnceInv'
  OBVIOUS
<1>1. /\ pc = "head" /\ pc' = "record" /\ h' = head
      /\ UNCHANGED <<ring, game, seen, c, k, out, recorded, history>>
  BY DEF DrainHead
<1>2. DrainInv'
  BY <1>1 DEF INV, DrainInv, Draining, Exact, First, Wanted, ring, game, history
<1>3. OnceInv'
  BY <1>1 DEF INV, OnceInv, Older, Draining, game, history
<1> QED BY <1>2, <1>3

(* Each record is read from the slot that still has it.                     *)
LEMMA DrainRecordStep == INV /\ DrainRecord => DrainInv' /\ OnceInv'
<1> SUFFICES ASSUME INV, DrainRecord PROVE DrainInv' /\ OnceInv'
  OBVIOUS
<1>1. /\ pc = "record" /\ pc' = "record" /\ k > 0 /\ k' = k - 1
      /\ out' = Append(out, slots[SlotOf])
      /\ UNCHANGED <<ring, game, seen, c, h, recorded, history>>
  BY DEF DrainRecord
<1>2. OnceInv'
  BY <1>1 DEF INV, OnceInv, Older, Draining, game, history
<1>3. ASSUME overlap' = "no" PROVE Exact'
  <2>1. Exact
    BY <1>1, <1>3 DEF INV, DrainInv, Draining, history
  <2> DEFINE n == Len(out)
             i == c - k + 1
  <2>2. /\ tramp = "out" /\ c = count /\ seen < c /\ h = head
        /\ out \in Seq([Fields -> Nat]) /\ n \in Nat /\ k \in Nat
        /\ n + k = Wanted(c) /\ count \in Nat /\ seen \in Nat
        /\ count = Len(recorded) /\ head = count % REC_COUNT
    BY <1>1, <2>1 DEF Exact, INV, DrainInv, RingInv, Counted, Types
  <2>3. Wanted(c) \in 1..REC_COUNT /\ Wanted(c) <= c - seen
    BY <2>2, WantedFacts
  <2>4. /\ First = c - Wanted(c) /\ First + (n + 1) = i
        /\ i \in 1..count /\ count - i < REC_COUNT
    <3>1. REC_COUNT \in Nat /\ Wanted(c) \in Nat /\ c \in Nat
      BY <2>2, <2>3, RingAssumption
    <3>2. First = c - Wanted(c)
      BY DEF First
    <3>3. i \in Int /\ 1 <= i /\ i <= c /\ c - i < REC_COUNT
      BY <1>1, <2>2, <2>3, <3>1
    <3>4. First + (n + 1) = i
      BY <2>2, <3>1, <3>2
    <3> HIDE DEF i
    <3> QED BY <2>2, <3>2, <3>3, <3>4
  <2>5. SlotOf = i % REC_COUNT
    <3> DEFINE b == 1 - k
    <3>1. b \in Int /\ c \in Int /\ c + b = i /\ h = c % REC_COUNT
      BY <2>2
    <3>2. (c % REC_COUNT) \in Int
      BY <3>1, Division, RingAssumption
    <3>3. h - k + 1 = (c % REC_COUNT) + b
      BY <2>2, <3>1, <3>2
    <3> HIDE DEF b, i
    <3>4. ((c % REC_COUNT) + b) % REC_COUNT = (c + b) % REC_COUNT
      BY <3>1, ModAdd, RingAssumption
    <3> QED BY <3>1, <3>3, <3>4 DEF SlotOf
  <2>6. slots[SlotOf] = Record(recorded[i], i)
    BY <2>2, <2>4, <2>5 DEF INV, RingInv, Held, Finished
  <2>7. Record(recorded[i], i) \in [Fields -> Nat]
    <3> HIDE DEF i
    <3>1. recorded[i] \in Nat /\ i \in Nat
      BY <2>2, <2>4 DEF INV, RingInv, Types
    <3> QED BY <3>1, RecordType
  <2> DEFINE rec == Record(recorded[i], i)
  <2> HIDE DEF i, n, rec
  <2>8. /\ out' \in Seq([Fields -> Nat]) /\ Len(out') = n + 1
        /\ out'[n + 1] = rec
        /\ \A j \in 1..n : out'[j] = out[j]
    <3>1. out' = Append(out, rec) /\ rec \in [Fields -> Nat]
      BY <1>1, <2>6, <2>7 DEF rec
    <3> QED BY <2>2, <3>1 DEF n
  <2>9. UNCHANGED <<First, Wanted(c)>>
    BY <1>1 DEF First, Wanted
  <2>10. \A j \in 1..(n + 1) : out'[j] = Record(recorded[First + j], First + j)
    <3>1. \A j \in 1..(n + 1) : j \in 1..n \/ j = n + 1
      BY <2>2
    <3>2. \A j \in 1..n : out[j] = Record(recorded[First + j], First + j)
      BY <2>1 DEF Exact, n
    <3> QED BY <2>4, <2>8, <3>1, <3>2 DEF rec
  <2>11. k' \in Nat /\ Len(out') + k' = Wanted(c)'
    BY <1>1, <2>2, <2>8, <2>9
  <2> QED
    BY <1>1, <2>2, <2>8, <2>9, <2>10, <2>11 DEF Exact, ring, game
<1>4. DrainInv'
  BY <1>1, <1>3 DEF INV, DrainInv
<1> QED BY <1>2, <1>4

(* A drain() nobody disturbed has, when it returns, the newest purchases    *)
(* since the last one, as many as the ring holds.                           *)
LEMMA Returned ==
  ASSUME INV, DrainReturns, overlap = "no"
  PROVE  /\ DOMAIN out = 1..Wanted(c) /\ Len(out) = Wanted(c)
         /\ c = Len(recorded) /\ First = c - Wanted(c)
         /\ First \in Nat /\ Wanted(c) = Min({c - seen, REC_COUNT})
         /\ Wanted(c) \in Nat /\ c \in Nat /\ seen \in Nat
         /\ \A i \in 1..Wanted(c) :
               /\ First + i \in 1..c /\ seen < First + i
               /\ recorded[First + i] \in Nat
               /\ out[i]["recptr"] = recorded[First + i]
               /\ out[i]["ordinal"] = First + i
               /\ Intact(out[i])
<1>1. Exact /\ k = 0 /\ tramp = "out"
  BY DEF DrainReturns, INV, DrainInv, Draining, Exact
<1>2. /\ c = Len(recorded) /\ c \in Nat /\ seen \in Nat /\ seen < c
      /\ recorded \in Seq(Nat)
  BY <1>1 DEF Exact, INV, RingInv, DrainInv, Counted, Types
<1>3. /\ Wanted(c) \in 1..REC_COUNT /\ Wanted(c) <= c - seen
      /\ Wanted(c) = Min({c - seen, REC_COUNT})
  BY <1>2, WantedFacts
<1>4. Wanted(c) \in Nat /\ First \in Nat /\ First = c - Wanted(c) /\ seen <= First
  <2>1. REC_COUNT \in Nat
    BY RingAssumption
  <2> QED BY <1>2, <1>3, <2>1 DEF First
<1>5. Len(out) = Wanted(c) /\ DOMAIN out = 1..Wanted(c)
  <2>1. Len(out) \in Nat /\ DOMAIN out = 1..Len(out) /\ Len(out) + 0 = Wanted(c)
    BY <1>1 DEF Exact
  <2> QED BY <1>4, <2>1
<1>6. ASSUME NEW i \in 1..Wanted(c)
      PROVE  /\ First + i \in 1..c /\ seen < First + i
             /\ recorded[First + i] \in Nat
             /\ out[i]["recptr"] = recorded[First + i]
             /\ out[i]["ordinal"] = First + i
             /\ Intact(out[i])
  <2> DEFINE m == First + i
  <2>1. m \in 1..c /\ seen < m /\ m \in Nat
    BY <1>2, <1>4
  <2>2. out[i] = Record(recorded[m], m)
    BY <1>1, <1>5 DEF Exact
  <2> HIDE DEF m
  <2>3. recorded[m] \in Nat
    BY <1>2, <2>1
  <2>4. /\ out[i]["recptr"] = recorded[m] /\ out[i]["amount"] = recorded[m]
        /\ out[i]["wallet"] = recorded[m] /\ out[i]["ordinal"] = m
    BY <2>1, <2>2, <2>3, RecordType, FieldNames
  <2> QED BY <2>1, <2>3, <2>4 DEF Intact, m
<1> QED BY <1>2, <1>3, <1>4, <1>5, <1>6

LEMMA DrainReturnsStep == INV /\ DrainReturns => DrainInv' /\ OnceInv'
<1> SUFFICES ASSUME INV, DrainReturns PROVE DrainInv' /\ OnceInv'
  OBVIOUS
<1> DEFINE got == {out[i]["recptr"] : i \in DOMAIN out}
           At(p) == {i \in DOMAIN out : out[i]["recptr"] = p}
           repeated == {p \in got : Cardinality(At(p)) > 1}
<1>1. /\ pc = "record" /\ pc' = "idle" /\ seen' = c
      /\ yielded' = yielded \cup got
      /\ twice' = twice \cup repeated \cup (yielded \cap got)
      /\ UNCHANGED <<game, c, recorded, overlap, upset>>
  BY DEF DrainReturns
<1>2. DrainInv'
  BY <1>1 DEF INV, DrainInv, Draining
<1>3. ASSUME upset = "no" PROVE Older'
  <2>1. Older /\ overlap = "no"
    BY <1>1, <1>3 DEF INV, OnceInv, Older, Draining
  <2>2. /\ DOMAIN out = 1..Wanted(c) /\ Wanted(c) \in Nat /\ First = c - Wanted(c)
        /\ c = Len(recorded) /\ c \in Nat
        /\ \A i \in 1..Wanted(c) :
              /\ First + i \in 1..c /\ seen < First + i
              /\ recorded[First + i] \in Nat
              /\ out[i]["recptr"] = recorded[First + i]
    BY <2>1, Returned
  <2>3. tramp = "out"
    BY <1>1, <2>1 DEF INV, DrainInv, Draining, Exact
  <2>4. repeated = {}
    <3> SUFFICES ASSUME NEW p \in got PROVE ~(Cardinality(At(p)) > 1)
      OBVIOUS
    <3>1. PICK i \in DOMAIN out : out[i]["recptr"] = p
      OBVIOUS
    <3>2. ASSUME NEW j \in DOMAIN out, out[j]["recptr"] = p PROVE j = i
      <4> DEFINE a == First + i
                 b == First + j
      <4>1. a \in 1..c /\ b \in 1..c /\ recorded[a] = p /\ recorded[b] = p
            /\ recorded[a] \in Nat
        BY <2>2, <3>1, <3>2
      <4>2. i \in Nat /\ j \in Nat /\ First \in Int
        <5>1. i \in 1..Wanted(c) /\ j \in 1..Wanted(c)
          BY ONLY <2>2, i \in DOMAIN out, j \in DOMAIN out
        <5>2. Wanted(c) \in Nat
          BY ONLY <2>2, ZenonT(20)
        <5>3. i \in Nat /\ j \in Nat
          BY ONLY <5>1, <5>2
        <5>4. First = c - Wanted(c) /\ c \in Nat
          BY ONLY <2>2, ZenonT(20)
        <5>5. First \in Int
          BY ONLY <5>2, <5>4
        <5> QED
          BY ONLY <5>3, <5>5
      <4> HIDE DEF a, b
      <4>3. a = b
        <5>1. \A x, y \in 1..c : x < y => recorded[x] < recorded[y]
          BY <2>2 DEF INV, RingInv, Rising
        <5>2. a \in Nat /\ b \in Nat /\ ~(p < p)
          <6>1. c \in Nat /\ p \in Nat
            BY <2>2, <4>1
          <6> QED BY <4>1, <6>1
        <5>3. ~(a < b) /\ ~(b < a)
          BY <4>1, <5>1, <5>2
        <5> QED BY <5>2, <5>3
      <4> QED BY <4>2, <4>3 DEF a, b
    <3>3. At(p) = {i}
      BY <3>1, <3>2
    <3> QED BY <3>3, FS_Singleton
  <2>5. ASSUME NEW p \in yielded PROVE p \notin got
    <3> SUFFICES ASSUME NEW i \in DOMAIN out, p = out[i]["recptr"] PROVE FALSE
      OBVIOUS
    <3> DEFINE a == First + i
    <3>1. a \in 1..c /\ seen < a /\ recorded[a] = p
      BY <2>2
    <3> HIDE DEF a
    <3>2. p \in Nat /\ p < recorded[a]
      BY <2>1, <2>2, <3>1 DEF Older
    <3> QED BY <3>1, <3>2
  <2>6. twice' = {}
    BY <1>1, <2>1, <2>4, <2>5 DEF Older
  <2>7. \A p \in got : p \in Nat /\ p <= bought
    <3> SUFFICES ASSUME NEW i \in DOMAIN out
                 PROVE  out[i]["recptr"] \in Nat /\ out[i]["recptr"] <= bought
      OBVIOUS
    <3> DEFINE a == First + i
    <3>1. a \in 1..Len(recorded) /\ recorded[a] \in Nat /\ out[i]["recptr"] = recorded[a]
      BY <2>2
    <3> HIDE DEF a
    <3>2. recorded[a] <= bought
      BY <3>1 DEF INV, RingInv, Rising
    <3> QED BY <3>1, <3>2
  <2>8. \A p \in yielded' : p \in Nat /\ p <= bought'
    BY <1>1, <2>1, <2>7 DEF Older, game
  <2>9. tramp' # "count" /\ ~Draining'
    BY <1>1, <2>3 DEF game, Draining
  <2>10. \A i \in 1..Len(recorded') : ~(seen' < i)
    BY <1>1, <2>2
  <2> QED BY <2>6, <2>8, <2>9, <2>10 DEF Older
<1> QED BY <1>1, <1>2, <1>3 DEF OnceInv

LEMMA DrainRaisesStep == INV /\ DrainRaises => DrainInv' /\ OnceInv'
<1> SUFFICES ASSUME INV, DrainRaises PROVE DrainInv' /\ OnceInv'
  OBVIOUS
<1>1. /\ Draining /\ pc' = "idle"
      /\ UNCHANGED <<game, seen, c, recorded, history>>
  BY DEF DrainRaises, Draining
<1> QED
  BY <1>1 DEF INV, DrainInv, OnceInv, Older, Draining, game, history
-----------------------------------------------------------------------------
(* What is owed to the client.                                             *)
LEMMA AccountSame ==
  ASSUME AccountInv, UNCHANGED <<pc, seen, c, recorded, account>>,
         pc' \in {"head", "record"} => overlap' \in {overlap, "yes"}
  PROVE  AccountInv'
<1>1. UNCHANGED <<pc, seen, c, recorded, owed, later, lapse>>
  BY DEF account
<1>2. UNCHANGED <<Settled, Draining>>
  BY <1>1 DEF Settled, Draining
<1>3. Draining' => Pending'
  <2> SUFFICES ASSUME Draining' PROVE Pending'
    OBVIOUS
  <2>1. Draining /\ Pending /\ overlap' \in {overlap, "yes"}
    BY <1>2 DEF AccountInv, Draining
  <2> QED BY <1>1, <1>2, <2>1 DEF Pending
<1> QED BY <1>1, <1>2, <1>3 DEF AccountInv

LEMMA AccountGame ==
  ASSUME INV, Buy \/ StoreHead \/ StoreField \/ RestoreDetect
  PROVE  AccountInv'
<1>1. UNCHANGED <<pc, seen, c, recorded, account>>
  BY DEF Buy, StoreHead, StoreField, RestoreDetect, drain
<1>2. overlap' \in {overlap, "yes"}
  BY DEF Buy, StoreHead, StoreField, RestoreDetect, Disturb, history
<1> QED BY <1>1, <1>2, AccountSame DEF INV

\* A purchase recorded is one more at the end of both.
LEMMA AgreeAppend ==
  ASSUME NEW s \in Seq(Nat), NEW t \in Seq(Nat), NEW v \in Nat, NEW n \in Nat,
         Agree(s, t, n)
  PROVE  Agree(Append(s, v), Append(t, v), n + 1)
<1> DEFINE a == Len(s)
           b == Len(t)
           s2 == Append(s, v)
           t2 == Append(t, v)
<1>1. /\ a \in Nat /\ Len(s2) = a + 1 /\ s2[a + 1] = v /\ \A i \in 1..a : s2[i] = s[i]
      /\ b \in Nat /\ Len(t2) = b + 1 /\ t2[b + 1] = v /\ \A i \in 1..b : t2[i] = t[i]
  OBVIOUS
<1>2. n <= a /\ n <= b /\ \A i \in 0..(n - 1) : s[a - i] = t[b - i]
  BY DEF Agree
<1> HIDE DEF a, b, s2, t2
<1>3. ASSUME NEW i \in 0..((n + 1) - 1) PROVE s2[(a + 1) - i] = t2[(b + 1) - i]
  <2>1. CASE i = 0
    BY <1>1, <2>1
  <2>2. CASE i # 0
    <3>1. /\ i - 1 \in 0..(n - 1) /\ a - (i - 1) = (a + 1) - i
          /\ b - (i - 1) = (b + 1) - i
          /\ (a + 1) - i \in 1..a /\ (b + 1) - i \in 1..b
      BY <1>1, <1>2, <2>2
    <3>2. s[a - (i - 1)] = t[b - (i - 1)]
      BY <1>2, <3>1
    <3> QED BY <1>1, <3>1, <3>2
  <2> QED BY <2>1, <2>2
<1>4. n + 1 <= Len(s2) /\ n + 1 <= Len(t2)
  BY <1>1, <1>2
<1>5. Agree(s2, t2, n + 1)
  BY <1>1, <1>3, <1>4 DEF Agree
<1> QED BY <1>5 DEF s2, t2

LEMMA AccountStoreCount == INV /\ StoreCount => AccountInv'
<1> SUFFICES ASSUME INV, StoreCount PROVE AccountInv'
  OBVIOUS
<1>1. /\ recorded' = Append(recorded, bought) /\ UNCHANGED <<pc, seen, c, lapse>>
      /\ owed' = IF pc = "off" THEN owed ELSE Append(owed, bought)
      /\ later' = IF pc \in {"head", "record"} THEN later + 1 ELSE later
      /\ Draining' => overlap' = "yes"
  BY DEF StoreCount, Disturb, drain, Draining
<1>2. AccountInv
  BY DEF INV
<1>3. /\ bought \in Nat /\ recorded \in Seq(Nat) /\ seen \in Nat /\ c \in Nat
  BY DEF INV, RingInv, Types, DrainInv
<1>4. /\ owed \in Seq(Nat) /\ later \in Nat
      /\ lapse \in {"no", "misread", "zeroed", "zeroed_midway"}
  BY <1>2 DEF AccountInv
<1>5. CASE pc = "off"
  BY <1>1, <1>2, <1>4, <1>5 DEF AccountInv, Draining
<1>6. CASE pc # "off"
  <2> DEFINE n == Len(recorded)
             m == Len(owed)
  <2>1. /\ owed' = Append(owed, bought) /\ owed' \in Seq(Nat)
        /\ n \in Nat /\ Len(recorded') = n + 1 /\ m \in Nat /\ Len(owed') = m + 1
    BY <1>1, <1>3, <1>4, <1>6
  <2> HIDE DEF m, n
  <2>2. lapse' \in {"no", "misread"} => Settled'
    <3> SUFFICES ASSUME lapse' \in {"no", "misread"} PROVE Settled'
      OBVIOUS
    <3>1. Agree(owed, recorded, m) /\ seen + m <= n /\ (lapse = "no" => seen + m = n)
      BY <1>1, <1>2, <1>6 DEF AccountInv, Settled, m, n
    <3>2. Agree(owed', recorded', m + 1)
      BY <1>1, <1>3, <1>4, <2>1, <3>1, AgreeAppend
    <3>3. seen + (m + 1) <= n + 1 /\ (lapse = "no" => seen + (m + 1) = n + 1)
      BY <1>3, <2>1, <3>1
    <3> QED BY <1>1, <2>1, <3>2, <3>3 DEF Settled
  <2>3. Draining' => Pending'
    <3> SUFFICES ASSUME Draining' PROVE Pending'
      OBVIOUS
    <3>1. Draining /\ later' = later + 1 /\ overlap' = "yes" /\ Pending
      BY <1>1, <1>2 DEF Draining, AccountInv
    <3>2. later <= m
      BY <3>1 DEF Pending, m
    <3>3. later' <= Len(owed')
      BY <1>4, <2>1, <3>1, <3>2
    <3>4. ASSUME lapse # "zeroed_midway"
          PROVE  Agree(owed', recorded', later + 1) /\ (later + 1) + c = n + 1
      <4>1. Agree(owed, recorded, later) /\ later + c = n
        BY <3>1, <3>4 DEF Pending, n
      <4>2. Agree(owed', recorded', later + 1)
        BY <1>1, <1>3, <1>4, <2>1, <4>1, AgreeAppend
      <4> QED BY <1>3, <1>4, <2>1, <4>1, <4>2
    <3> QED BY <1>1, <2>1, <3>1, <3>3, <3>4 DEF Pending
  <2> QED BY <1>1, <1>2, <1>4, <1>6, <2>1, <2>2, <2>3 DEF AccountInv
<1> QED BY <1>5, <1>6

LEMMA AccountInstall == INV /\ InstallDetect => AccountInv'
<1> SUFFICES ASSUME INV, InstallDetect PROVE AccountInv'
  OBVIOUS
<1>1. /\ UNCHANGED <<pc, owed, later>>
      /\ pc # "off" => lapse' \in {"zeroed", "zeroed_midway"}
      /\ pc = "off" => lapse' = lapse
      /\ Draining => lapse' = "zeroed_midway" /\ overlap' = "yes"
  BY DEF InstallDetect, drain, Disturb, Draining
<1>2. AccountInv
  BY DEF INV
<1>3. Draining' => Pending'
  BY <1>1, <1>2 DEF Draining, Pending, AccountInv
<1> QED BY <1>1, <1>2, <1>3 DEF AccountInv, Draining

\* The counter read is the number of purchases recorded, or 0.
LEMMA AccountRead ==
  ASSUME INV, NEW value \in {count, 0}, Attach(value) \/ DrainNothing(value)
  PROVE  AccountInv'
<1>1. AccountInv /\ count = Len(recorded) /\ recorded \in Seq(Nat) /\ seen \in Nat
  BY DEF INV, RingInv, Counted, Types, DrainInv
<1>2. /\ pc' = "idle" /\ seen' = value /\ UNCHANGED <<recorded, later>>
      /\ \/ owed' = <<>> /\ (lapse' = "no" => value = count)
            /\ lapse' \in {"no", "misread"}
         \/ /\ pc = "idle" /\ value = 0 /\ UNCHANGED owed
            /\ lapse' = IF lapse = "no" THEN "misread" ELSE lapse
  BY <1>1 DEF Attach, DrainNothing, AccountInv
<1>3. /\ owed \in Seq(Nat) /\ later \in Nat /\ Len(recorded) \in Nat
      /\ lapse \in {"no", "misread", "zeroed", "zeroed_midway"}
  BY <1>1 DEF AccountInv
<1>4. CASE owed' = <<>> /\ (lapse' = "no" => value = count) /\ lapse' \in {"no", "misread"}
  <2>1. Len(owed') = 0 /\ owed' \in Seq(Nat)
    BY <1>4
  <2>2. Agree(owed', recorded', Len(owed'))
    BY <1>2, <1>3, <2>1 DEF Agree
  <2>3. Settled'
    BY <1>1, <1>2, <1>3, <1>4, <2>1, <2>2 DEF Settled
  <2> QED BY <1>2, <1>3, <1>4, <2>1, <2>3 DEF AccountInv, Draining
<1>5. CASE /\ pc = "idle" /\ value = 0 /\ UNCHANGED owed
           /\ lapse' = IF lapse = "no" THEN "misread" ELSE lapse
  <2>1. lapse' \in {"no", "misread"} => Settled
    BY <1>1, <1>3, <1>5 DEF AccountInv
  <2>2. lapse' \in {"no", "misread"} => Settled'
    <3> SUFFICES ASSUME lapse' \in {"no", "misread"} PROVE Settled'
      OBVIOUS
    <3>1. Agree(owed, recorded, Len(owed)) /\ seen + Len(owed) <= Len(recorded)
      BY <2>1 DEF Settled
    <3>2. Len(owed) \in Nat /\ 0 + Len(owed) <= Len(recorded)
      BY <1>1, <1>3, <3>1
    <3>3. lapse' # "no"
      BY <1>5
    <3> QED BY <1>2, <1>5, <3>1, <3>2, <3>3 DEF Settled
  <2> QED BY <1>2, <1>3, <1>5, <2>2 DEF AccountInv, Draining
<1> QED BY <1>2, <1>4, <1>5

LEMMA AccountDrainCount == INV /\ DrainCount(count) => AccountInv'
<1> SUFFICES ASSUME INV, DrainCount(count) PROVE AccountInv'
  OBVIOUS
<1>1. AccountInv /\ count = Len(recorded) /\ recorded \in Seq(Nat)
  BY DEF INV, RingInv, Counted, Types
<1>2. /\ pc = "idle" /\ pc' = "head" /\ c' = count /\ later' = 0 /\ seen' = seen
      /\ lapse' = IF lapse = "zeroed_midway" THEN "zeroed" ELSE lapse
      /\ UNCHANGED <<recorded, owed>>
  BY DEF DrainCount, SeenMeanwhile
<1>3. /\ owed \in Seq(Nat) /\ Len(owed) \in Nat /\ Len(recorded) \in Nat
      /\ lapse \in {"no", "misread", "zeroed", "zeroed_midway"}
  BY <1>1 DEF AccountInv
<1>4. Agree(owed, recorded, 0)
  BY <1>3 DEF Agree
<1>5. Pending'
  BY <1>1, <1>2, <1>3, <1>4 DEF Pending
<1>6. lapse' \in {"no", "misread"} => Settled'
  BY <1>1, <1>2, <1>3 DEF Settled, AccountInv
<1> QED BY <1>2, <1>3, <1>5, <1>6 DEF AccountInv

(* What is left owed after a drain() are those it came too early for.       *)
LEMMA AccountReturns == INV /\ DrainReturns => AccountInv'
<1> SUFFICES ASSUME INV, DrainReturns PROVE AccountInv'
  OBVIOUS
<1> DEFINE n == Len(recorded)
           m == Len(owed)
<1>1. /\ Draining /\ pc' = "idle" /\ seen' = c /\ UNCHANGED <<recorded, later>>
      /\ owed' = LastOf(owed, later)
      /\ lapse' = IF lapse = "zeroed_midway" THEN "zeroed" ELSE "no"
  BY DEF DrainReturns, LastOf, Draining
<1>2. AccountInv /\ Pending
  BY <1>1 DEF INV, AccountInv
<1>3. recorded \in Seq(Nat) /\ c \in Nat
  BY DEF INV, RingInv, Types, DrainInv
<1>4. owed \in Seq(Nat) /\ later \in Nat
  BY <1>2 DEF AccountInv
<1>5. later <= m /\ m \in Nat /\ n \in Nat /\ later \in 0..m
  BY <1>2, <1>3, <1>4 DEF Pending
<1>6. /\ owed' \in Seq(Nat) /\ Len(owed') = later
      /\ \A i \in 1..later : owed'[i] = owed[m - later + i]
  BY <1>1, <1>4, <1>5, LastOfIs
<1> HIDE DEF m, n
<1>7. ASSUME lapse' = "no" PROVE Settled'
  <2>1. Agree(owed, recorded, later) /\ later + c = n
    BY <1>1, <1>2, <1>7 DEF Pending, n
  <2>2. later <= n /\ \A i \in 0..(later - 1) : owed[m - i] = recorded[n - i]
    BY <2>1 DEF Agree, m, n
  <2>3. ASSUME NEW i \in 0..(later - 1) PROVE owed'[later - i] = recorded[n - i]
    <3>1. later - i \in 1..later /\ m - later + (later - i) = m - i
      BY <1>4, <1>5
    <3> QED BY <1>6, <2>2, <3>1
  <2>4. Agree(owed', recorded, later)
    BY <1>6, <2>2, <2>3 DEF Agree, n
  <2>5. Agree(owed', recorded', Len(owed')) /\ c + Len(owed') = Len(recorded')
    BY <1>1, <1>3, <1>4, <1>5, <1>6, <2>1, <2>4 DEF n
  <2> QED BY <1>1, <1>3, <1>4, <1>6, <2>5 DEF Settled
<1>8. lapse' \in {"no", "zeroed"}
  BY <1>1
<1> QED BY <1>1, <1>4, <1>6, <1>7, <1>8 DEF AccountInv, Draining

LEMMA AccountDrain ==
  ASSUME INV, DrainHead \/ DrainRecord \/ DrainRaises
  PROVE  AccountInv'
<1>1. /\ UNCHANGED <<seen, c, recorded, overlap, owed, later, lapse>>
      /\ Draining /\ pc' # "off"
  BY DEF DrainHead, DrainRecord, DrainRaises, history, account, Draining
<1>2. UNCHANGED <<Settled, Pending>>
  BY <1>1 DEF Settled, Pending
<1> QED BY <1>1, <1>2 DEF INV, AccountInv, Draining
-----------------------------------------------------------------------------
LEMMA NextINV == INV /\ [Next]_vars => INV'
<1> SUFFICES ASSUME INV, [Next]_vars PROVE INV'
  OBVIOUS
<1>0. RingInv /\ DrainInv /\ OnceInv /\ AccountInv
  BY DEF INV
<1>1. CASE Buy
  <2>1. Disturb /\ UNCHANGED drain
    BY <1>1 DEF Buy
  <2> QED BY <1>0, <1>1, <2>1, RingInvBuy, DrainInvDisturbed, OnceInvBuy,
             AccountGame DEF INV
<1>2. CASE StoreCount
  <2>1. Disturb /\ UNCHANGED drain
    BY <1>2 DEF StoreCount
  <2> QED BY <1>0, <1>2, <2>1, RingInvStoreCount, DrainInvDisturbed,
             OnceInvStoreCount, AccountStoreCount DEF INV
<1>3. CASE StoreHead
  <2>1. Disturb /\ UNCHANGED drain
    BY <1>3 DEF StoreHead
  <2> QED BY <1>0, <1>3, <2>1, RingInvStoreHead, DrainInvDisturbed,
             OnceInvStoreRest, AccountGame DEF INV
<1>4. CASE StoreField
  <2>1. Disturb /\ UNCHANGED drain
    BY <1>4 DEF StoreField
  <2> QED BY <1>0, <1>4, <2>1, RingInvStoreField, DrainInvDisturbed,
             OnceInvStoreRest, AccountGame DEF INV
<1>5. CASE InstallDetect
  <2>1. Disturb /\ UNCHANGED drain
    BY <1>5 DEF InstallDetect
  <2> QED BY <1>0, <1>5, <2>1, RingInvInstall, DrainInvDisturbed,
             OnceInvInstall, AccountInstall DEF INV
<1>6. CASE RestoreDetect
  <2>1. /\ tramp' = "out" /\ UNCHANGED <<ring, game, drain, recorded, history>>
        /\ UNCHANGED <<bought, tramp, overlap>>
    BY <1>6 DEF RestoreDetect, game, history
  <2>2. RingInv'
    BY <1>0, <2>1, RingInvSame
  <2>3. DrainInv' /\ OnceInv'
    BY <1>0, <2>1, DrainInvSame, OnceInvSame
  <2>4. AccountInv'
    BY <1>6, AccountGame
  <2> QED BY <2>2, <2>3, <2>4 DEF INV
<1>7. CASE ReadOk \/ ReadFails \/ DrainHead \/ DrainRecord \/ DrainReturns
           \/ DrainRaises
  <2>1. UNCHANGED <<site, ring, game, recorded>>
    BY <1>7 DEF ReadOk, ReadFails, Attach, DrainNothing, DrainCount, DrainHead,
                DrainRecord, DrainReturns, DrainRaises
  <2>2. RingInv'
    BY <1>0, <2>1, RingInvSame DEF RingInv, Counted, game
  <2>3. count \in Nat /\ 0 \in Nat
    BY <1>0 DEF RingInv, Counted, Types
  <2>4. DrainInv' /\ OnceInv'
    BY <1>7, <2>3, AttachStep, DrainNothingStep, DrainCountStep, DrainHeadStep,
       DrainRecordStep, DrainReturnsStep, DrainRaisesStep DEF ReadOk, ReadFails
  <2>5. AccountInv'
    BY <1>7, AccountRead, AccountDrainCount, AccountDrain, AccountReturns
       DEF ReadOk, ReadFails
  <2> QED BY <2>2, <2>4, <2>5 DEF INV
<1>8. CASE UNCHANGED vars
  <2>1. /\ UNCHANGED <<site, ring, game, drain, recorded, history>>
        /\ UNCHANGED <<bought, tramp, overlap>>
    BY <1>8 DEF vars, game, history
  <2>2. RingInv'
    BY <1>0, <2>1, RingInvSame DEF RingInv, Counted, game
  <2>3. DrainInv' /\ OnceInv'
    BY <1>0, <2>1, DrainInvSame, OnceInvSame
  <2>4. AccountInv'
    <3>1. UNCHANGED <<pc, seen, c, recorded, account, overlap>>
      BY <1>8 DEF vars, drain, history
    <3> QED BY <1>0, <3>1, AccountSame
  <2> QED BY <2>2, <2>3, <2>4 DEF INV
<1> QED
  BY <1>1, <1>2, <1>3, <1>4, <1>5, <1>6, <1>7, <1>8
     DEF Next, Trampoline, Tool, Drain

(* For a ring of any size and any number of purchases and installations:    *)
(* only a ring that moved under a drain(), or a counter that could not be   *)
(* read, makes drain() return a purchase again.                             *)
THEOREM RepeatsOnlyWhenUpsetTheorem == Spec => []RepeatsOnlyWhenUpset
<1>1. INV => RepeatsOnlyWhenUpset
  BY DEF INV, OnceInv, Older, RepeatsOnlyWhenUpset
<1> QED BY InitINV, NextINV, <1>1, PTL DEF Spec

(* For a ring of any size: a drain() under which the ring does not move     *)
(* returns the newest purchases intact and numbered, those owed to the     *)
(* client among them, as many as the ring holds; none but them unless the  *)
(* counter was misread before; and a drain() that returns nothing owes     *)
(* nothing.  Unless the ring was zeroed under the reader before.           *)
THEOREM UndisturbedDrainIsExactTheorem == Spec => UndisturbedDrainIsExact
<1> DEFINE due == Min({Len(owed), REC_COUNT})
           Good == /\ Purchased(out) = LastOf(recorded, Len(out))
                   /\ \A i \in DOMAIN out :
                         Intact(out[i]) /\ out[i]["ordinal"] = c - Len(out) + i
                   /\ lapse # "zeroed" =>
                         Len(out) >= due /\ LastOf(Purchased(out), due) = LastOf(owed, due)
                   /\ lapse = "no" => Len(out) = due
<1>1. ASSUME INV, DrainReturns, overlap = "no" PROVE Good
  <2> DEFINE w == Wanted(c)
             m == Len(owed)
  <2>1. /\ DOMAIN out = 1..w /\ Len(out) = w
        /\ c = Len(recorded) /\ First = c - w /\ First \in Nat
        /\ w = Min({c - seen, REC_COUNT}) /\ w \in Nat /\ c \in Nat /\ seen \in Nat
        /\ \A i \in 1..w :
              /\ First + i \in 1..c
              /\ recorded[First + i] \in Nat
              /\ out[i]["recptr"] = recorded[First + i]
              /\ out[i]["ordinal"] = First + i
              /\ Intact(out[i])
    BY <1>1, Returned
  <2>2. /\ recorded \in Seq(Nat) /\ owed \in Seq(Nat) /\ m \in Nat /\ REC_COUNT \in Nat
        /\ AccountInv
    <3>1. recorded \in Seq(Nat) /\ AccountInv
      BY <1>1 DEF INV, RingInv, Types
    <3>2. owed \in Seq(Nat)
      BY <3>1 DEF AccountInv
    <3> QED BY <3>1, <3>2, RingAssumption
  <2> HIDE DEF w
  <2>3. LastOf(recorded, w) = [i \in 1..w |-> recorded[First + i]]
    <3>1. w \in 0..Len(recorded) /\ Len(recorded) - w = First
      BY <2>1
    <3>2. LastOf(recorded, w) = [i \in 1..w |-> recorded[Len(recorded) - w + i]]
      BY <2>2, <3>1, LastOfIs
    <3> QED BY <3>1, <3>2
  <2>4. Purchased(out) = [i \in 1..w |-> recorded[First + i]]
    BY <2>1 DEF Purchased
  <2>5. \A i \in DOMAIN out : Intact(out[i]) /\ out[i]["ordinal"] = c - Len(out) + i
    BY <2>1
  <2> HIDE DEF due, m
  <2>6. w \in Nat /\ c \in Nat /\ seen \in Nat /\ First = c - w
    BY <2>1
  <2>7. ASSUME lapse # "zeroed"
        PROVE  /\ Len(out) >= due /\ LastOf(Purchased(out), due) = LastOf(owed, due)
               /\ lapse = "no" => Len(out) = due
    <3>1. Draining /\ pc # "off" /\ lapse \in {"no", "misread"}
      BY <1>1, <2>2, <2>7 DEF DrainReturns, Draining, AccountInv, Pending
    <3>2. /\ Agree(owed, recorded, m) /\ seen + m <= c
          /\ (lapse = "no" => seen + m = c)
      BY <2>1, <2>2, <3>1 DEF AccountInv, Settled, m
    <3>3. /\ due = (IF m <= REC_COUNT THEN m ELSE REC_COUNT)
          /\ w = (IF c - seen <= REC_COUNT THEN c - seen ELSE REC_COUNT)
      <4>1. c - seen \in Int /\ REC_COUNT \in Int /\ Len(owed) \in Int
        BY <2>1, <2>2 DEF m
      <4>2. due = (IF Len(owed) <= REC_COUNT THEN Len(owed) ELSE REC_COUNT)
        BY <4>1, MinOfTwo DEF due
      <4>3. w = (IF c - seen <= REC_COUNT THEN c - seen ELSE REC_COUNT)
        BY <2>1, <4>1, MinOfTwo
      <4> QED BY <4>2, <4>3 DEF m
    <3>4. /\ due \in Nat /\ due <= w /\ due <= m /\ (lapse = "no" => w = due)
      BY <2>2, <2>6, <3>2, <3>3
    <3>5. \A i \in 0..(m - 1) : owed[m - i] = recorded[c - i]
      BY <2>1, <3>2 DEF Agree, m
    <3>6. Purchased(out) \in Seq(Nat) /\ Len(Purchased(out)) = w
      <4>1. Purchased(out) \in [1..w -> Nat]
        BY <2>1, <2>4
      <4> QED BY <2>6, <4>1, IsSequence
    <3>7. /\ LastOf(Purchased(out), due) = [i \in 1..due |-> Purchased(out)[w - due + i]]
          /\ LastOf(owed, due) = [i \in 1..due |-> owed[m - due + i]]
      <4>1. due \in 0..Len(Purchased(out)) /\ due \in 0..Len(owed)
        BY <2>1, <2>2, <3>4, <3>6 DEF m
      <4> QED BY <2>2, <3>6, <4>1, LastOfIs DEF m
    <3>8. ASSUME NEW i \in 1..due
          PROVE  Purchased(out)[w - due + i] = owed[m - due + i]
      <4>1. /\ w - due + i \in 1..w /\ First + (w - due + i) = c - (due - i)
            /\ due - i \in 0..(m - 1) /\ m - (due - i) = m - due + i
        BY <2>2, <2>6, <3>4
      <4>2. Purchased(out)[w - due + i] = recorded[c - (due - i)]
        BY <2>4, <4>1
      <4> QED BY <3>5, <4>1, <4>2
    <3>9. LastOf(Purchased(out), due) = LastOf(owed, due)
      BY <3>7, <3>8
    <3> QED BY <2>1, <3>4, <3>9
  <2> QED BY <2>1, <2>3, <2>4, <2>5, <2>7
<1>2. ASSUME INV, DrainNothing(count), lapse \in {"no", "misread"} PROVE owed = <<>>
  <2>1. /\ pc = "idle" /\ ~(count > seen) /\ count = Len(recorded)
        /\ seen \in Nat /\ owed \in Seq(Nat) /\ recorded \in Seq(Nat)
    BY <1>2 DEF DrainNothing, Fresh, INV, AccountInv, RingInv, Counted, Types, DrainInv
  <2>2. seen + Len(owed) <= Len(recorded)
    BY <1>2, <2>1 DEF INV, AccountInv, Settled
  <2>3. Len(owed) = 0
    BY <2>1, <2>2
  <2> QED BY <2>1, <2>3
<1> DEFINE Exactly ==
       /\ (DrainReturns /\ overlap = "no") => Good
       /\ (DrainNothing(count) /\ lapse \in {"no", "misread"}) => owed = <<>>
<1>3. INV /\ [Next]_vars => [Exactly]_vars
  BY <1>1, <1>2
<1>4. Spec => [][Exactly]_vars
  BY InitINV, NextINV, <1>3, PTL DEF Spec
<1> QED BY <1>4 DEF UndisturbedDrainIsExact
-----------------------------------------------------------------------------
(* The deny gate.  What is left of a job of each name.                     *)
Whole(name) == name \in {"apply", "allow_all", "install_deny", "install_detect"}
Remaining(name) ==
    IF name \in {"apply", "allow_all"} THEN {<<"table", "flag">>, <<"flag">>}
    ELSE IF name = "install_deny"
    THEN {InstallSteps, <<"table", "code", "site">>, <<"code", "site">>, <<"site">>}
    ELSE IF name = "install_detect" THEN {<<"flag", "table">>, <<"table">>}
    ELSE IF name = "restore_deny" THEN {<<"site">>}
    ELSE IF name = "enforce" THEN {<<"flag">>}
    ELSE {<<"table">>}
Has(steps, step) == \E i \in 1..Len(steps) : steps[i] = step

Busy(w) == job[w].steps # <<>>
Todo(w, step) == Has(job[w].steps, step)
Goal(w) == configs[job[w].number]
JobFields == {"name", "steps", "number", "alone"}

Shape ==
    /\ DOMAIN job = Writers /\ DOMAIN left = Writers
    /\ \A w \in Writers : DOMAIN job[w] = JobFields

\* Of two writers at once neither is alone, and memory may be a mixture.
JobOK(w) == Busy(w) =>
    /\ job[w].name # "idle" /\ job[w].steps \in Remaining(job[w].name)
    /\ settled <= job[w].number
    /\ job[w].alone => job[w].number = Len(configs) /\ ~Busy(Other(w))
    /\ ~job[w].alone => torn
    /\ job[w].name \in {"install_deny", "install_detect"} => Goal(w) = Vanilla
    /\ job[w].name = "install_deny" /\ ~Todo(w, "code") => code

\* The flag and each byte were asked for, by the settled configuration or later,
FlagAsked == \E n \in settled..Len(configs) : enforce = configs[n].enforce
BytesAsked ==
    \A v \in Vehicles : \E n \in settled..Len(configs) :
       v \in permit <=> v \in configs[n].allowed

\* all by the last one when the writers are done and none failed or met another;
AtRest ==
    ~torn /\ (\A w \in Writers : ~Busy(w)) =>
       settled = Len(configs) /\ enforce = Asked.enforce /\ permit = Asked.allowed

\* what a writer alone has written is as it asked, and so is, if all was in
\* order before, what it has not to write;
UnderWay(w) ==
    Busy(w) /\ job[w].alone /\ (Whole(job[w].name) \/ ~torn) =>
       /\ ~Todo(w, "flag") => enforce = Goal(w).enforce
       /\ \A v \in Vehicles : ~Todo(w, "table") \/ v \notin left[w] =>
             (v \in permit <=> v \in Goal(w).allowed)

\* and it sets the flag last, or resets it.
ArmedLast(w) ==
    Busy(w) /\ ~torn =>
       settled + 1 = Len(configs) /\ (enforce => configs[settled].enforce)

\* A purchase between its two reads found the flag set by a configuration; what
\* forbids a vehicle now was asked for by it or later.
FlagThenByte ==
    purchase = "byte" /\ ~doubt =>
       \E n \in since..Len(configs) :
          /\ configs[n].enforce
          /\ \A v \in Vehicles \ permit : \E m \in n..Len(configs) :
                v \notin configs[m].allowed

WritersInv ==
    /\ GateTypeOK /\ Shape
    /\ \A w \in Writers : JobOK(w) /\ UnderWay(w) /\ ArmedLast(w)
    /\ FlagAsked /\ BytesAsked /\ AtRest
GateInv == WritersInv /\ (torn => doubt) /\ FlagThenByte
-----------------------------------------------------------------------------
LEMMA TwoWriters ==
    ASSUME NEW w \in Writers
    PROVE  /\ Other(w) \in Writers /\ Other(w) # w
           /\ \A u \in Writers : u = w \/ u = Other(w)
           /\ Other(Other(w)) = w
           /\ "tool" \in Writers /\ "client" \in Writers
BY DEF Writers, Other

StepNames == {"flag", "table", "code", "site"}

\* A step less of a job.
LEMMA StepLess ==
    ASSUME NEW name \in JobNames \ {"idle"}, NEW s \in Remaining(name)
    PROVE  /\ s \in Seq(StepNames) /\ s # <<>> /\ Tail(s) \in Seq(StepNames)
           /\ Tail(s) = <<>> \/ Tail(s) \in Remaining(name)
           /\ Tail(s) = <<>> <=> Len(s) = 1
           /\ \A x : Has(s, x) <=> x = Head(s) \/ Has(Tail(s), x)
           /\ ~Has(Tail(s), Head(s)) /\ ~Has(<<>>, Head(s))
           /\ Head(s) = "flag" /\ Tail(s) # <<>> =>
                 name \in {"install_deny", "install_detect"}
           /\ Head(s) = "site" => Tail(s) = <<>>
           /\ name = "install_deny" /\ Head(s) = "site" =>
                 ~Has(s, "code") /\ ~Has(s, "flag") /\ ~Has(s, "table")
<1> DEFINE Good(t) ==
              /\ t \in Seq(StepNames) /\ t # <<>> /\ Tail(t) \in Seq(StepNames)
              /\ Tail(t) = <<>> <=> Len(t) = 1
              /\ \A x : Has(t, x) <=> x = Head(t) \/ Has(Tail(t), x)
              /\ ~Has(Tail(t), Head(t)) /\ ~Has(<<>>, Head(t))
              /\ Head(t) = "site" => Tail(t) = <<>>
<1>1. Good(<<"flag">>) /\ Tail(<<"flag">>) = <<>> /\ Head(<<"flag">>) = "flag"
  BY DEF Has, StepNames
<1>2. Good(<<"table">>) /\ Tail(<<"table">>) = <<>> /\ Head(<<"table">>) = "table"
  BY DEF Has, StepNames
<1>3. /\ Good(<<"site">>) /\ Tail(<<"site">>) = <<>> /\ Head(<<"site">>) = "site"
      /\ ~Has(<<"site">>, "code") /\ ~Has(<<"site">>, "flag") /\ ~Has(<<"site">>, "table")
  BY DEF Has, StepNames
<1>4. /\ Good(<<"table", "flag">>) /\ Tail(<<"table", "flag">>) = <<"flag">>
      /\ Head(<<"table", "flag">>) = "table"
  BY DEF Has, StepNames
<1>5. /\ Good(<<"flag", "table">>) /\ Tail(<<"flag", "table">>) = <<"table">>
      /\ Head(<<"flag", "table">>) = "flag"
  BY DEF Has, StepNames
<1>6. /\ Good(<<"code", "site">>) /\ Tail(<<"code", "site">>) = <<"site">>
      /\ Head(<<"code", "site">>) = "code"
  BY DEF Has, StepNames
<1>7. /\ Good(<<"table", "code", "site">>)
      /\ Tail(<<"table", "code", "site">>) = <<"code", "site">>
      /\ Head(<<"table", "code", "site">>) = "table"
  BY DEF Has, StepNames
<1>8. /\ Good(InstallSteps) /\ Tail(InstallSteps) = <<"table", "code", "site">>
      /\ Head(InstallSteps) = "flag"
  BY DEF Has, StepNames, InstallSteps
<1> HIDE DEF Good
<1>9. Good(s)
  BY <1>1, <1>2, <1>3, <1>4, <1>5, <1>6, <1>7, <1>8 DEF Remaining
<1>10. Tail(s) = <<>> \/ Tail(s) \in Remaining(name)
  BY <1>1, <1>2, <1>3, <1>4, <1>5, <1>6, <1>7, <1>8 DEF Remaining
<1>11. Head(s) = "flag" /\ Tail(s) # <<>> => name \in {"install_deny", "install_detect"}
  BY <1>1, <1>2, <1>3, <1>4, <1>5, <1>6, <1>7, <1>8 DEF Remaining
<1>12. name = "install_deny" /\ Head(s) = "site" =>
          ~Has(s, "code") /\ ~Has(s, "flag") /\ ~Has(s, "table")
  BY <1>1, <1>2, <1>3, <1>4, <1>5, <1>6, <1>7, <1>8 DEF Remaining
<1> QED
  BY <1>9, <1>10, <1>11, <1>12 DEF Good

\* What a job is, before its first write.
Sound(name, steps, bytes, config) ==
    /\ name \in JobNames \ {"idle"} /\ steps \in Remaining(name)
    /\ bytes \subseteq Vehicles /\ config \in Config
    /\ name \in {"install_deny", "install_detect"} => config = Vanilla
    /\ name = "install_deny" => Has(steps, "code")
    /\ Whole(name) => Has(steps, "flag") /\ Has(steps, "table") /\ bytes = Vehicles
    /\ ~Has(steps, "flag") => Whole(name) \/ config.enforce = Asked.enforce
    /\ ~Whole(name) => \A v \in Vehicles : ~Has(steps, "table") \/ v \notin bytes =>
          (v \in Asked.allowed <=> v \in config.allowed)

LEMMA BeginFacts ==
    ASSUME GateInv, NEW w \in Writers, NEW name, NEW steps, NEW bytes, NEW config,
           Sound(name, steps, bytes, config), Begin(w, name, steps, bytes, config)
    PROVE  /\ configs \in Seq(Config) /\ configs' = Append(configs, config)
           /\ Len(configs) \in Nat /\ Len(configs') = Len(configs) + 1
           /\ Len(configs') \in 1..MaxConfigs /\ configs' \in Seq(Config)
           /\ \A n \in 1..Len(configs) : configs'[n] = configs[n]
           /\ configs'[Len(configs) + 1] = config
           /\ DOMAIN job' = Writers
           /\ DOMAIN job'[w] = JobFields /\ DOMAIN job'[Other(w)] = JobFields
           /\ job'[w].name = name /\ job'[w].steps = steps
           /\ job'[w].number = Len(configs) + 1
           /\ job'[w].alone = ~Busy(Other(w))
           /\ job'[Other(w)].name = job[Other(w)].name
           /\ job'[Other(w)].steps = job[Other(w)].steps
           /\ job'[Other(w)].number = job[Other(w)].number
           /\ job'[Other(w)].alone = FALSE
           /\ left' = [left EXCEPT ![w] = bytes]
           /\ torn' = (torn \/ Busy(Other(w))) /\ doubt' = (doubt \/ torn')
           /\ ~Busy(w)
           /\ UNCHANGED <<memory, pending, purchase, vehicle, oktobuy, settled, since>>
<1>1. /\ configs \in Seq(Config) /\ Len(configs) < MaxConfigs
      /\ configs' = Append(configs, config) /\ config \in Config
      /\ MaxConfigs \in Nat /\ Len(configs) \in 1..MaxConfigs
  BY ConfigsAssumption DEF GateInv, WritersInv, GateTypeOK, Begin, Sound
<1>2. /\ Len(configs) \in Nat /\ Len(configs') = Len(configs) + 1
      /\ Len(configs') \in 1..MaxConfigs /\ configs' \in Seq(Config)
      /\ \A n \in 1..Len(configs) : configs'[n] = configs[n]
      /\ configs'[Len(configs) + 1] = config
  BY <1>1
<1>3. job' = [u \in Writers |->
                 IF u = w THEN [name |-> name, steps |-> steps,
                                number |-> Len(configs'),
                                alone |-> IsIdle(Other(w))]
                          ELSE [job[u] EXCEPT !.alone = FALSE]]
  BY DEF Begin
<1>4. /\ Other(w) \in Writers /\ Other(w) # w
      /\ DOMAIN job[Other(w)] = JobFields
  BY TwoWriters DEF GateInv, WritersInv, Shape
<1>5. /\ DOMAIN job' = Writers
      /\ job'[w] = [name |-> name, steps |-> steps, number |-> Len(configs'),
                    alone |-> IsIdle(Other(w))]
      /\ job'[Other(w)] = [job[Other(w)] EXCEPT !.alone = FALSE]
  BY <1>3, <1>4
<1>6. /\ DOMAIN job'[w] = JobFields
      /\ job'[w].name = name /\ job'[w].steps = steps
      /\ job'[w].number = Len(configs) + 1
      /\ job'[w].alone = ~Busy(Other(w))
  BY <1>2, <1>5 DEF JobFields, IsIdle, Busy
<1>7. /\ DOMAIN job'[Other(w)] = JobFields
      /\ job'[Other(w)].name = job[Other(w)].name
      /\ job'[Other(w)].steps = job[Other(w)].steps
      /\ job'[Other(w)].number = job[Other(w)].number
      /\ job'[Other(w)].alone = FALSE
  BY <1>4, <1>5 DEF JobFields
<1>8. /\ left' = [left EXCEPT ![w] = bytes]
      /\ torn' = (torn \/ Busy(Other(w))) /\ doubt' = (doubt \/ torn')
      /\ ~Busy(w)
      /\ UNCHANGED <<memory, pending, purchase, vehicle, oktobuy, settled, since>>
  BY DEF Begin, IsIdle, Busy
<1> QED
  BY <1>1, <1>2, <1>5, <1>6, <1>7, <1>8

LEMMA BeginKeeps ==
    ASSUME GateInv, NEW w \in Writers, NEW name, NEW steps, NEW bytes, NEW config,
           Sound(name, steps, bytes, config), Begin(w, name, steps, bytes, config)
    PROVE  GateInv'
<1> DEFINE u == Other(w)
           n == Len(configs)
<1>0. /\ u \in Writers /\ u # w /\ \A x \in Writers : x = w \/ x = u
      /\ Other(u) = w
  BY TwoWriters
<1>1. /\ n \in Nat /\ Len(configs') = n + 1 /\ configs' \in Seq(Config)
      /\ Len(configs') \in 1..MaxConfigs
      /\ \A i \in 1..n : configs'[i] = configs[i]
      /\ configs'[n + 1] = config
      /\ DOMAIN job' = Writers /\ DOMAIN job'[w] = JobFields /\ DOMAIN job'[u] = JobFields
      /\ job'[w].name = name /\ job'[w].steps = steps /\ job'[w].number = n + 1
      /\ job'[w].alone = ~Busy(u)
      /\ job'[u].name = job[u].name /\ job'[u].steps = job[u].steps
      /\ job'[u].number = job[u].number /\ job'[u].alone = FALSE
      /\ left' = [left EXCEPT ![w] = bytes]
      /\ torn' = (torn \/ Busy(u)) /\ doubt' = (doubt \/ torn') /\ ~Busy(w)
      /\ denySite' = denySite /\ code' = code /\ enforce' = enforce /\ permit' = permit
      /\ pending' = pending /\ purchase' = purchase /\ vehicle' = vehicle
      /\ oktobuy' = oktobuy /\ settled' = settled /\ since' = since
  BY BeginFacts DEF memory
<1>2. /\ GateTypeOK /\ Shape /\ JobOK(u) /\ FlagAsked /\ BytesAsked /\ AtRest
      /\ torn => doubt
      /\ FlagThenByte
  BY <1>0 DEF GateInv, WritersInv
<1>3. /\ settled \in 1..n /\ since \in 1..settled /\ permit \subseteq Vehicles
      /\ job[u].number \in 1..n /\ torn \in BOOLEAN /\ doubt \in BOOLEAN
      /\ DOMAIN left = Writers /\ left \in [Writers -> SUBSET Vehicles]
      /\ job[u].name \in JobNames /\ job[u].steps \in Seq(StepNames)
  BY <1>0, <1>2 DEF GateTypeOK, Shape, StepNames
<1>4. /\ name \in JobNames \ {"idle"} /\ steps \in Remaining(name)
      /\ bytes \subseteq Vehicles /\ config \in Config
      /\ steps \in Seq(StepNames) /\ steps # <<>>
  BY StepLess DEF Sound
<1>5. Busy(w)' /\ (Busy(u)' <=> Busy(u))
  BY <1>1, <1>4 DEF Busy
<1>6. GateTypeOK'
  <2>1. /\ job'[w].name \in JobNames /\ job'[w].steps \in Seq(StepNames)
        /\ job'[w].number \in 1..Len(configs') /\ job'[w].alone \in BOOLEAN
    BY <1>1, <1>4 DEF Busy
  <2>2. /\ job'[u].name \in JobNames /\ job'[u].steps \in Seq(StepNames)
        /\ job'[u].number \in 1..Len(configs') /\ job'[u].alone \in BOOLEAN
    <3>1. job[u].number \in 1..(n + 1)
      BY <1>1, <1>3
    <3> QED
      BY <1>1, <1>3, <3>1
  <2>3. left' \in [Writers -> SUBSET Vehicles]
    BY <1>1, <1>3, <1>4
  <2>4. settled' \in 1..Len(configs') /\ since' \in 1..settled'
    BY <1>1, <1>3
  <2>5. torn' \in BOOLEAN /\ doubt' \in BOOLEAN
    BY <1>1, <1>3 DEF Busy
  <2> QED
    BY <1>0, <1>1, <1>2, <2>1, <2>2, <2>3, <2>4, <2>5 DEF GateTypeOK, StepNames
<1>7. Shape'
  BY <1>0, <1>1, <1>2 DEF Shape
<1>8. JobOK(w)'
  <2>1. Goal(w)' = config
    BY <1>1 DEF Goal
  <2>2. job'[w].name = "install_deny" => Todo(w, "code")'
    BY <1>1 DEF Sound, Todo
  <2>3. job'[w].name \in {"install_deny", "install_detect"} => Goal(w)' = Vanilla
    BY <1>1, <2>1 DEF Sound
  <2>4. settled' <= job'[w].number
    BY <1>1, <1>3
  <2>5. /\ job'[w].alone => job'[w].number = Len(configs') /\ ~Busy(Other(w))'
        /\ ~job'[w].alone => torn'
    BY <1>1, <1>5
  <2>6. job'[w].name # "idle" /\ job'[w].steps \in Remaining(job'[w].name)
    BY <1>1, <1>4
  <2> QED
    BY <2>2, <2>3, <2>4, <2>5, <2>6 DEF JobOK, Vanilla
<1>9. JobOK(u)'
  <2> SUFFICES ASSUME Busy(u)' PROVE JobOK(u)'
    BY DEF JobOK
  <2>1. /\ job[u].name # "idle" /\ job[u].steps \in Remaining(job[u].name)
        /\ settled <= job[u].number
        /\ job[u].name \in {"install_deny", "install_detect"} => Goal(u) = Vanilla
        /\ job[u].name = "install_deny" /\ ~Todo(u, "code") => code
    BY <1>2, <1>5 DEF JobOK
  <2>2. Goal(u)' = Goal(u) /\ (Todo(u, "code")' <=> Todo(u, "code"))
    BY <1>1, <1>3 DEF Goal, Todo
  <2>3. torn'
    BY <1>1, <1>5
  <2> QED
    BY <1>1, <2>1, <2>2, <2>3 DEF JobOK, Vanilla
<1>10. ~torn' => ~torn /\ ~Busy(w) /\ ~Busy(u)
  BY <1>1
<1>11. ~torn' => settled = n /\ enforce = configs[n].enforce /\ permit = configs[n].allowed
  BY <1>0, <1>2, <1>10 DEF AtRest, Asked, Last
<1>12. UnderWay(w)'
  <2> SUFFICES ASSUME Whole(name) \/ ~torn'
               PROVE  /\ ~Has(steps, "flag") => enforce' = config.enforce
                      /\ \A v \in Vehicles : ~Has(steps, "table") \/ v \notin bytes =>
                            (v \in permit' <=> v \in config.allowed)
    <3>1. Goal(w)' = config /\ left'[w] = bytes
      BY <1>1, <1>3 DEF Goal
    <3>2. (Todo(w, "flag")' <=> Has(steps, "flag")) /\ (Todo(w, "table")' <=> Has(steps, "table"))
      BY <1>1 DEF Todo
    <3>3. Whole(job'[w].name) <=> Whole(name)
      BY <1>1
    <3> QED
      BY <3>1, <3>2, <3>3 DEF UnderWay, Whole
  <2>1. CASE Whole(name)
    BY <2>1 DEF Sound
  <2>2. CASE ~Whole(name)
    <3>1. enforce' = Asked.enforce /\ permit' = Asked.allowed
      BY <1>1, <1>11, <2>2 DEF Asked, Last
    <3> QED
      BY <2>2, <3>1 DEF Sound
  <2> QED
    BY <2>1, <2>2
<1>13. UnderWay(u)'
  BY <1>1 DEF UnderWay
<1>14. ArmedLast(w)'
  <2> SUFFICES ASSUME ~torn'
               PROVE  settled' + 1 = Len(configs') /\ (enforce' => configs'[settled'].enforce)
    BY DEF ArmedLast
  <2>1. settled = n /\ enforce = configs[n].enforce /\ n \in 1..n
    BY <1>3, <1>11
  <2> QED
    BY <1>1, <2>1
<1>15. ArmedLast(u)'
  BY <1>1, <1>5 DEF ArmedLast
<1>16. FlagAsked'
  <2>1. PICK i \in settled..n : enforce = configs[i].enforce
    BY <1>2 DEF FlagAsked
  <2>2. i \in settled'..Len(configs') /\ configs'[i] = configs[i]
    BY <1>1, <1>3
  <2> QED
    BY <1>1, <2>1, <2>2 DEF FlagAsked
<1>17. BytesAsked'
  <2> SUFFICES ASSUME NEW v \in Vehicles
               PROVE  \E i \in settled'..Len(configs') :
                         v \in permit' <=> v \in configs'[i].allowed
    BY DEF BytesAsked
  <2>1. PICK i \in settled..n : v \in permit <=> v \in configs[i].allowed
    BY <1>2 DEF BytesAsked
  <2>2. i \in settled'..Len(configs') /\ configs'[i] = configs[i]
    BY <1>1, <1>3
  <2> QED
    BY <1>1, <2>1, <2>2
<1>18. AtRest'
  BY <1>5 DEF AtRest
<1>19. FlagThenByte'
  <2> SUFFICES ASSUME purchase' = "byte", ~doubt' PROVE FlagThenByte'
    BY DEF FlagThenByte
  <2>1. PICK i \in since..n :
           /\ configs[i].enforce
           /\ \A v \in Vehicles \ permit : \E m \in i..n : v \notin configs[m].allowed
    BY <1>1, <1>2 DEF FlagThenByte
  <2>2. /\ i \in since'..Len(configs') /\ configs'[i].enforce
        /\ \A m \in i..n : m \in i..Len(configs') /\ configs'[m] = configs[m]
    BY <1>1, <1>3, <2>1
  <2>3. \A v \in Vehicles \ permit' : \E m \in i..Len(configs') : v \notin configs'[m].allowed
    BY <1>1, <2>1, <2>2
  <2> QED
    BY <2>2, <2>3 DEF FlagThenByte
<1>20. WritersInv'
  BY <1>0, <1>6, <1>7, <1>8, <1>9, <1>12, <1>13, <1>14, <1>15, <1>16, <1>17, <1>18
     DEF WritersInv, Writers
<1>21. torn' => doubt'
  BY <1>1
<1> QED
  BY <1>19, <1>20, <1>21 DEF GateInv

(* What the client and the tool ask for are such jobs.                     *)
LEMMA JobsAreSound ==
    ASSUME GateInv, Client \/ GateTool
    PROVE  GateInv'
<1>0. /\ Asked \in Config /\ "client" \in Writers /\ "tool" \in Writers
      /\ Vanilla \in Config
  <2>1. configs \in Seq(Config) /\ Len(configs) \in 1..MaxConfigs /\ MaxConfigs \in Nat
    BY ConfigsAssumption DEF GateInv, WritersInv, GateTypeOK
  <2>2. configs[Len(configs)] \in Config
    BY <2>1
  <2>3. Vanilla \in Config
    BY DEF Vanilla, Config
  <2> QED
    BY <2>2, <2>3 DEF Asked, Last, Writers
<1>1. /\ Has(<<"table", "flag">>, "flag") /\ Has(<<"table", "flag">>, "table")
      /\ Has(<<"flag", "table">>, "flag") /\ Has(<<"flag", "table">>, "table")
      /\ Has(InstallSteps, "flag") /\ Has(InstallSteps, "table") /\ Has(InstallSteps, "code")
      /\ ~Has(<<"site">>, "flag") /\ ~Has(<<"site">>, "table")
      /\ Has(<<"flag">>, "flag") /\ ~Has(<<"flag">>, "table")
      /\ ~Has(<<"table">>, "flag") /\ Has(<<"table">>, "table")
  BY DEF Has, InstallSteps
<1>2. CASE AllowAll
  <2>1. Sound("allow_all", <<"table", "flag">>, Vehicles,
              [enforce |-> FALSE, allowed |-> Vehicles])
    BY <1>1 DEF Sound, Whole, Remaining, JobNames, Config
  <2> QED
    BY <1>0, <1>2, <2>1, BeginKeeps DEF AllowAll
<1>3. ASSUME NEW names \in SUBSET Vehicles, NEW invalid \in SUBSET Vehicles,
             NEW on \in BOOLEAN, Apply(names, invalid, on)
      PROVE  GateInv'
  <2> DEFINE allowed == names \cap Cataloged(invalid)
             config == [enforce |-> on, allowed |-> allowed]
  <2>1. allowed \subseteq Vehicles
    OBVIOUS
  <2>2. config \in Config
    BY <2>1 DEF Config
  <2>3. Begin("client", "apply", <<"table", "flag">>, Vehicles, config)
    BY <1>3 DEF Apply, ApplySteps, ApplyBytes
  <2> HIDE DEF config
  <2>4. Sound("apply", <<"table", "flag">>, Vehicles, config)
    BY <1>1, <2>2 DEF Sound, Whole, Remaining, JobNames
  <2> QED
    BY <1>0, <2>3, <2>4, BeginKeeps
<1>4. CASE InstallDeny
  <2>1. Sound("install_deny", InstallSteps, Vehicles, Vanilla)
    BY <1>0, <1>1 DEF Sound, Whole, Remaining, JobNames
  <2> QED
    BY <1>0, <1>4, <2>1, BeginKeeps DEF InstallDeny
<1>5. CASE RestoreDeny
  <2>1. Sound("restore_deny", <<"site">>, {}, Asked)
    BY <1>0, <1>1 DEF Sound, Whole, Remaining, JobNames
  <2> QED
    BY <1>0, <1>5, <2>1, BeginKeeps DEF RestoreDeny
<1>6. CASE ZeroMailbox
  <2>1. Sound("install_detect", <<"flag", "table">>, Vehicles, Vanilla)
    BY <1>0, <1>1 DEF Sound, Whole, Remaining, JobNames
  <2> QED
    BY <1>0, <1>6, <2>1, BeginKeeps DEF ZeroMailbox
<1>7. ASSUME NEW on \in BOOLEAN, Enforce(on) PROVE GateInv'
  <2> DEFINE config == [Asked EXCEPT !.enforce = on]
  <2>1. config \in Config /\ config.allowed = Asked.allowed
    BY <1>0 DEF Config
  <2>2. Begin("tool", "enforce", <<"flag">>, {}, config)
    BY <1>7 DEF Enforce
  <2> HIDE DEF config
  <2>3. Sound("enforce", <<"flag">>, {}, config)
    BY <1>1, <2>1 DEF Sound, Whole, Remaining, JobNames
  <2> QED
    BY <1>0, <2>2, <2>3, BeginKeeps
<1>8. ASSUME NEW name \in {"permit_allow_all", "permit_deny_all", "permit_set"},
             NEW bytes \in SUBSET Vehicles, NEW allowed \in SUBSET Vehicles,
             \A v \in Vehicles : v \notin bytes => (v \in Asked.allowed <=> v \in allowed),
             Begin("tool", name, <<"table">>, bytes, [Asked EXCEPT !.allowed = allowed])
      PROVE  GateInv'
  <2> DEFINE config == [Asked EXCEPT !.allowed = allowed]
  <2>1. config \in Config /\ config.enforce = Asked.enforce /\ config.allowed = allowed
    BY <1>0 DEF Config
  <2> HIDE DEF config
  <2>2. Sound(name, <<"table">>, bytes, config)
    BY <1>1, <1>8, <2>1 DEF Sound, Whole, Remaining, JobNames
  <2>3. Begin("tool", name, <<"table">>, bytes, config)
    BY <1>8 DEF config
  <2> QED
    BY <1>0, <2>2, <2>3, BeginKeeps
<1>9. CASE PermitAllowAll
  BY <1>8, <1>9 DEF PermitAllowAll
<1>10. CASE PermitDenyAll
  BY <1>8, <1>10 DEF PermitDenyAll
<1>11. ASSUME NEW v \in Vehicles, NEW on \in BOOLEAN, PermitSet(v, on)
       PROVE  GateInv'
  <2> DEFINE allowed == IF on THEN Asked.allowed \cup {v} ELSE Asked.allowed \ {v}
  <2>1. allowed \in SUBSET Vehicles /\ {v} \in SUBSET Vehicles
    BY <1>0 DEF Config
  <2>2. \A x \in Vehicles : x \notin {v} => (x \in Asked.allowed <=> x \in allowed)
    OBVIOUS
  <2>3. Begin("tool", "permit_set", <<"table">>, {v}, [Asked EXCEPT !.allowed = allowed])
    BY <1>11 DEF PermitSet
  <2> HIDE DEF allowed
  <2> QED
    BY <1>8, <2>1, <2>2, <2>3
<1> QED
  BY <1>2, <1>3, <1>4, <1>5, <1>6, <1>7, <1>9, <1>10, <1>11 DEF Client, GateTool
-----------------------------------------------------------------------------
(* A write.                                                                *)
InOrder(w) == job[w].alone /\ (Whole(job[w].name) \/ ~torn)

LEMMA AdvanceFacts ==
    ASSUME GateInv, NEW w \in Writers, Busy(w), Advance(w)
    PROVE  LET last == Tail(job[w].steps) = <<>> IN
           /\ DOMAIN job' = Writers
           /\ DOMAIN job'[w] = JobFields /\ job'[Other(w)] = job[Other(w)]
           /\ last => job'[w] = Idle
           /\ ~last => /\ job'[w].steps = Tail(job[w].steps)
                       /\ job'[w].name = job[w].name
                       /\ job'[w].number = job[w].number
                       /\ job'[w].alone = job[w].alone
           /\ settled' = IF last /\ InOrder(w) THEN job[w].number ELSE settled
           /\ torn' = (torn /\ ~(last /\ InOrder(w)))
           /\ configs' = configs /\ pending' = pending /\ purchase' = purchase
           /\ vehicle' = vehicle /\ oktobuy' = oktobuy
           /\ since' = since /\ doubt' = doubt
<1> DEFINE last == Tail(job[w].steps) = <<>>
<1>1. /\ DOMAIN job = Writers /\ DOMAIN job[w] = JobFields
      /\ Other(w) \in Writers /\ Other(w) # w
  BY TwoWriters DEF GateInv, WritersInv, Shape
<1>2. /\ DOMAIN job' = Writers /\ job'[Other(w)] = job[Other(w)]
      /\ last => job'[w] = Idle
      /\ ~last => job'[w] = [job[w] EXCEPT !.steps = Tail(job[w].steps)]
  <2>1. CASE last
    <3>1. job' = [job EXCEPT ![w] = Idle]
      BY <2>1 DEF Advance
    <3> QED
      BY <1>1, <2>1, <3>1
  <2>2. CASE ~last
    <3>1. job' = [job EXCEPT ![w].steps = Tail(@)]
      BY <2>2 DEF Advance
    <3> QED
      BY <1>1, <2>2, <3>1
  <2> QED
    BY <2>1, <2>2
<1>3. DOMAIN job'[w] = JobFields
  BY <1>1, <1>2 DEF Idle, JobFields
<1>4. ~last => /\ job'[w].steps = Tail(job[w].steps)
               /\ job'[w].name = job[w].name
               /\ job'[w].number = job[w].number
               /\ job'[w].alone = job[w].alone
  BY <1>1, <1>2 DEF JobFields
<1>5. /\ settled' = IF last /\ InOrder(w) THEN job[w].number ELSE settled
      /\ torn' = (torn /\ ~(last /\ InOrder(w)))
  BY DEF Advance, InOrder, Whole
<1>6. /\ configs' = configs /\ pending' = pending /\ purchase' = purchase
      /\ vehicle' = vehicle /\ oktobuy' = oktobuy
      /\ since' = since /\ doubt' = doubt
  BY DEF Advance, shop
<1> QED
  BY <1>2, <1>3, <1>4, <1>5, <1>6

\* What the write that is made first has changed in the memory.
Written1(w) ==
    LET s == job[w].steps IN
    /\ denySite' \in {"UISet", "trampoline"} /\ code' \in BOOLEAN
    /\ code \/ (job[w].name = "install_deny" /\ Head(s) = "code") => code'
    /\ left' \in [Writers -> SUBSET Vehicles]
    /\ enforce' \in BOOLEAN /\ enforce' \in {enforce, Goal(w).enforce}
    /\ Head(s) = "flag" => enforce' = Goal(w).enforce
    /\ Head(s) # "flag" => enforce' = enforce
    /\ permit' \subseteq Vehicles
    /\ \A v \in Vehicles : \/ v \in permit' <=> v \in permit
                           \/ v \in permit' <=> v \in Goal(w).allowed
    /\ Head(s) = "table" => \A v \in Vehicles :
          (v \notin left[w] => (v \in permit' <=> v \in permit))
          /\ (v \in left[w] => (v \in permit' <=> v \in Goal(w).allowed))
    /\ Head(s) # "table" => permit' = permit /\ left'[w] = left[w]

LEMMA AdvanceKeeps ==
    ASSUME GateInv, NEW w \in Writers, Busy(w), Advance(w), Written1(w)
    PROVE  GateInv'
<1> DEFINE u == Other(w)
           s == job[w].steps
           last == Tail(s) = <<>>
           n == Len(configs)
<1>0. /\ u \in Writers /\ u # w /\ \A x \in Writers : x = w \/ x = u
      /\ Other(u) = w
  BY TwoWriters
<1>1. /\ DOMAIN job' = Writers /\ DOMAIN job'[w] = JobFields /\ job'[u] = job[u]
      /\ last => job'[w] = Idle
      /\ ~last => /\ job'[w].steps = Tail(s) /\ job'[w].name = job[w].name
                  /\ job'[w].number = job[w].number /\ job'[w].alone = job[w].alone
      /\ settled' = IF last /\ InOrder(w) THEN job[w].number ELSE settled
      /\ torn' = (torn /\ ~(last /\ InOrder(w)))
      /\ configs' = configs /\ pending' = pending /\ purchase' = purchase
      /\ vehicle' = vehicle /\ oktobuy' = oktobuy
      /\ since' = since /\ doubt' = doubt
  BY AdvanceFacts
<1>2. /\ GateTypeOK /\ Shape /\ JobOK(u) /\ JobOK(w) /\ UnderWay(w) /\ ArmedLast(w)
      /\ FlagAsked /\ BytesAsked /\ AtRest
      /\ torn => doubt
      /\ FlagThenByte
  BY <1>0 DEF GateInv, WritersInv
<1>3. /\ configs \in Seq(Config) /\ n \in 1..MaxConfigs /\ n \in Nat
      /\ settled \in 1..n /\ since \in 1..settled /\ permit \subseteq Vehicles
      /\ job[w].number \in 1..n /\ torn \in BOOLEAN /\ doubt \in BOOLEAN
      /\ DOMAIN left = Writers /\ DOMAIN job[u] = JobFields
      /\ job[w].name \in JobNames /\ job[w].alone \in BOOLEAN
  BY <1>0, <1>2, ConfigsAssumption DEF GateTypeOK, Shape
<1>4. /\ job[w].name # "idle" /\ s \in Remaining(job[w].name)
      /\ settled <= job[w].number
      /\ job[w].alone => job[w].number = n /\ ~Busy(u)
      /\ ~job[w].alone => torn
      /\ job[w].name \in {"install_deny", "install_detect"} => Goal(w) = Vanilla
      /\ job[w].name = "install_deny" /\ ~Has(s, "code") => code
  BY <1>2 DEF JobOK, Todo
<1>5. /\ Tail(s) \in Seq(StepNames) /\ (last \/ Tail(s) \in Remaining(job[w].name))
      /\ \A x : Has(s, x) <=> x = Head(s) \/ Has(Tail(s), x)
      /\ ~Has(Tail(s), Head(s))
      /\ Head(s) = "flag" /\ ~last => job[w].name \in {"install_deny", "install_detect"}
  <2>1. job[w].name \in JobNames \ {"idle"}
    BY <1>3, <1>4
  <2> QED
    BY <1>4, <2>1, StepLess
<1>6. Goal(w) \in Config /\ Goal(w).enforce \in BOOLEAN /\ Goal(w).allowed \subseteq Vehicles
  <2>1. configs[job[w].number] \in Config
    BY <1>3
  <2> QED
    BY <2>1 DEF Goal, Config
<1>7. /\ Busy(w)' <=> ~last
      /\ Busy(u)' <=> Busy(u)
  <2>1. Idle.steps = <<>>
    BY DEF Idle
  <2> QED
    BY <1>1, <2>1 DEF Busy
<1>8. Goal(w)' = Goal(w) \/ last
  BY <1>1 DEF Goal
\* What has been asked for is in memory as far as it has been written.
<1>9. InOrder(w) /\ ~Has(Tail(s), "flag") => enforce' = Goal(w).enforce
  BY <1>2, <1>5 DEF Written1, UnderWay, InOrder, Todo
<1>10. ASSUME InOrder(w), NEW v \in Vehicles, ~Has(Tail(s), "table") \/ v \notin left'[w]
       PROVE  v \in permit' <=> v \in Goal(w).allowed
  <2>1. CASE Head(s) = "table"
    <3>1. v \in left[w] => (v \in permit' <=> v \in Goal(w).allowed)
      BY <2>1 DEF Written1
    <3>2. v \notin left[w] => (v \in permit <=> v \in Goal(w).allowed)
      BY <1>2, <1>10 DEF UnderWay, InOrder
    <3>3. v \notin left[w] => (v \in permit' <=> v \in permit)
      BY <2>1 DEF Written1
    <3> QED
      BY <3>1, <3>2, <3>3
  <2>2. CASE Head(s) # "table"
    <3>1. permit' = permit /\ left'[w] = left[w]
      BY <2>2 DEF Written1
    <3>2. ~Has(s, "table") \/ v \notin left[w]
      BY <1>5, <1>10, <2>2, <3>1
    <3> QED
      BY <1>2, <1>10, <3>1, <3>2 DEF UnderWay, InOrder, Todo
  <2> QED
    BY <2>1, <2>2
<1>11. last => ~Has(Tail(s), "flag") /\ ~Has(Tail(s), "table")
  <2>1. \A x : ~Has(<<>>, x)
    BY DEF Has
  <2> QED
    BY <2>1
<1>12. settled' \in settled..n /\ settled' <= job[w].number
  <2>1. settled' = job[w].number \/ settled' = settled
    BY <1>1
  <2>2. job[w].number \in settled..n /\ settled \in settled..n
    BY <1>3, <1>4
  <2> QED
    BY <1>4, <1>3, <2>1, <2>2
<1>13. GateTypeOK'
  <2>1. /\ job'[w].name \in JobNames /\ job'[w].steps \in Seq(StepNames)
        /\ job'[w].number \in 1..n /\ job'[w].alone \in BOOLEAN
    <3>1. CASE last
      <4>1. /\ Idle.name \in JobNames /\ Idle.steps \in Seq(StepNames)
            /\ Idle.number = 1 /\ Idle.alone \in BOOLEAN
        BY DEF Idle, JobNames
      <4>2. 1 \in 1..n
        BY <1>3
      <4> QED
        BY <1>1, <3>1, <4>1, <4>2
    <3>2. CASE ~last
      BY <1>1, <1>3, <1>5, <3>2
    <3> QED
      BY <3>1, <3>2
  <2>2. settled' \in 1..n /\ since \in 1..settled'
    BY <1>3, <1>12
  <2>3. torn' \in BOOLEAN
    BY <1>1, <1>3
  <2> QED
    BY <1>0, <1>1, <1>2, <2>1, <2>2, <2>3 DEF GateTypeOK, StepNames, Written1
<1>14. Shape'
  BY <1>0, <1>1, <1>3 DEF Shape, Written1
<1>15. JobOK(w)'
  <2> SUFFICES ASSUME ~last PROVE JobOK(w)'
    BY <1>7 DEF JobOK
  <2>1. settled' = settled /\ torn' = torn /\ Goal(w)' = Goal(w)
    BY <1>1, <1>3, <1>8
  <2>2. job[w].name = "install_deny" /\ ~Has(Tail(s), "code") => code'
    BY <1>4, <1>5 DEF Written1
  <2>3. Todo(w, "code")' <=> Has(Tail(s), "code")
    BY <1>1 DEF Todo
  <2>4. /\ job'[w].name # "idle" /\ job'[w].steps \in Remaining(job'[w].name)
        /\ settled' <= job'[w].number
        /\ job'[w].alone => job'[w].number = Len(configs') /\ ~Busy(u)'
        /\ ~job'[w].alone => torn'
        /\ job'[w].name \in {"install_deny", "install_detect"} => Goal(w)' = Vanilla
        /\ job'[w].name = "install_deny" /\ ~Todo(w, "code")' => code'
    <3>1. /\ job'[w].steps = Tail(s) /\ job'[w].name = job[w].name
          /\ job'[w].number = job[w].number /\ job'[w].alone = job[w].alone
          /\ configs' = configs
      BY <1>1
    <3>2. job'[w].name # "idle" /\ job'[w].steps \in Remaining(job'[w].name)
      BY ONLY <1>4, <1>5, <3>1, ~last
    <3>3. settled' <= job'[w].number
      BY ONLY <1>4, <2>1, <3>1
    <3>4. job'[w].alone => job'[w].number = Len(configs') /\ ~Busy(u)'
      BY ONLY <1>4, <1>7, <3>1
    <3>5. ~job'[w].alone => torn'
      BY ONLY <1>4, <2>1, <3>1
    <3>6. job'[w].name \in {"install_deny", "install_detect"} => Goal(w)' = Vanilla
      BY ONLY <1>4, <2>1, <3>1
    <3>7. job'[w].name = "install_deny" /\ ~Todo(w, "code")' => code'
      BY ONLY <2>2, <2>3, <3>1
    <3> QED
      BY <3>2, <3>3, <3>4, <3>5, <3>6, <3>7
  <2> QED
    BY <2>4 DEF JobOK, Vanilla
<1>16. JobOK(u)'
  <2> SUFFICES ASSUME Busy(u) PROVE JobOK(u)'
    BY <1>7 DEF JobOK
  <2>1. ~job[w].alone /\ settled' = settled /\ torn' = torn
    BY <1>1, <1>3, <1>4 DEF InOrder
  <2>2. /\ Goal(u)' = Goal(u) /\ (Todo(u, "code")' <=> Todo(u, "code"))
        /\ (code => code')
    BY <1>1 DEF Goal, Todo, Written1
  <2>3. ~job[u].alone
    BY <1>0, <1>2 DEF JobOK
  <2>4. /\ job[u].name # "idle" /\ job[u].steps \in Remaining(job[u].name)
        /\ settled <= job[u].number
        /\ job[u].name \in {"install_deny", "install_detect"} => Goal(u) = Vanilla
        /\ job[u].name = "install_deny" /\ ~Todo(u, "code") => code
        /\ torn
    BY <1>2, <2>3 DEF JobOK
  <2>5. /\ job'[u].name # "idle" /\ job'[u].steps \in Remaining(job'[u].name)
        /\ settled' <= job'[u].number
        /\ ~job'[u].alone /\ torn'
        /\ job'[u].name \in {"install_deny", "install_detect"} => Goal(u)' = Vanilla
        /\ job'[u].name = "install_deny" /\ ~Todo(u, "code")' => code'
    <3>1. job'[u] = job[u]
      BY <1>1
    <3>2. job'[u].name # "idle" /\ job'[u].steps \in Remaining(job'[u].name)
      BY ONLY <2>4, <3>1
    <3>3. settled' <= job'[u].number
      BY ONLY <2>1, <2>4, <3>1
    <3>4. ~job'[u].alone /\ torn'
      BY ONLY <2>1, <2>3, <2>4, <3>1
    <3>5. job'[u].name \in {"install_deny", "install_detect"} => Goal(u)' = Vanilla
      BY ONLY <2>2, <2>4, <3>1
    <3>6. job'[u].name = "install_deny" /\ ~Todo(u, "code")' => code'
      BY ONLY <2>2, <2>4, <3>1
    <3> QED
      BY <3>2, <3>3, <3>4, <3>5, <3>6
  <2> QED
    BY <2>5 DEF JobOK, Vanilla
<1>17. UnderWay(w)'
  <2> SUFFICES ASSUME ~last, InOrder(w)
               PROVE  /\ ~Has(Tail(s), "flag") => enforce' = Goal(w).enforce
                      /\ \A v \in Vehicles : ~Has(Tail(s), "table") \/ v \notin left'[w] =>
                            (v \in permit' <=> v \in Goal(w).allowed)
    BY <1>1, <1>7, <1>8 DEF UnderWay, InOrder, Todo, Whole
  <2> QED
    BY <1>9, <1>10
<1>18. UnderWay(u)'
  BY <1>0, <1>1, <1>2, <1>4, <1>7 DEF UnderWay, JobOK
<1>19. ArmedLast(w)'
  <2> SUFFICES ASSUME ~last, ~torn'
               PROVE  settled' + 1 = n /\ (enforce' => configs[settled'].enforce)
    BY <1>1, <1>7 DEF ArmedLast
  <2>1. ~torn /\ settled' = settled
    BY <1>1, <1>3
  <2>2. settled + 1 = n /\ (enforce => configs[settled].enforce)
    BY <1>2, <2>1 DEF ArmedLast
  <2>3. CASE Head(s) = "flag"
    <3>1. enforce' = FALSE
      BY <1>4, <1>5, <2>3 DEF Written1, Vanilla
    <3> QED
      BY <2>1, <2>2, <3>1
  <2>4. CASE Head(s) # "flag"
    BY <2>1, <2>2, <2>4 DEF Written1
  <2> QED
    BY <2>3, <2>4
<1>20. ArmedLast(u)'
  <2> SUFFICES ASSUME Busy(u), ~torn' PROVE FALSE
    BY <1>7 DEF ArmedLast
  <2>1. ~job[w].alone /\ torn
    BY <1>4
  <2> QED
    BY <1>1, <2>1 DEF InOrder
<1>21. FlagAsked'
  <2>1. CASE last /\ InOrder(w)
    <3>1. enforce' = configs[settled'].enforce /\ settled' \in settled'..n
      BY <1>1, <1>3, <1>9, <1>11, <2>1 DEF Goal
    <3> QED
      BY <1>1, <3>1 DEF FlagAsked
  <2>2. CASE ~(last /\ InOrder(w))
    <3>1. settled' = settled
      BY <1>1, <2>2
    <3>2. PICK i \in settled..n : enforce = configs[i].enforce
      BY <1>2 DEF FlagAsked
    <3>3. job[w].number \in settled..n
      BY <1>3, <1>4
    <3>4. enforce' = configs[i].enforce \/ enforce' = configs[job[w].number].enforce
      BY <3>2 DEF Written1, Goal
    <3> QED
      BY <1>1, <3>1, <3>2, <3>3, <3>4 DEF FlagAsked
  <2> QED
    BY <2>1, <2>2
<1>22. BytesAsked'
  <2> SUFFICES ASSUME NEW v \in Vehicles
               PROVE  \E i \in settled'..n : v \in permit' <=> v \in configs[i].allowed
    BY <1>1 DEF BytesAsked
  <2>1. CASE last /\ InOrder(w)
    <3>1. v \in permit' <=> v \in configs[settled'].allowed
      BY <1>1, <1>10, <1>11, <2>1 DEF Goal
    <3>2. settled' \in settled'..n
      BY <1>1, <1>3, <2>1
    <3> QED
      BY <3>1, <3>2
  <2>2. CASE ~(last /\ InOrder(w))
    <3>1. settled' = settled
      BY <1>1, <2>2
    <3>2. PICK i \in settled..n : v \in permit <=> v \in configs[i].allowed
      BY <1>2 DEF BytesAsked
    <3>3. job[w].number \in settled..n
      BY <1>3, <1>4
    <3>4. \/ v \in permit' <=> v \in configs[i].allowed
          \/ v \in permit' <=> v \in configs[job[w].number].allowed
      BY <3>2 DEF Written1, Goal
    <3> QED
      BY <3>1, <3>2, <3>3, <3>4
  <2> QED
    BY <2>1, <2>2
<1>23. AtRest'
  <2> SUFFICES ASSUME ~torn', ~Busy(w)', ~Busy(u)'
               PROVE  settled' = n /\ enforce' = configs[n].enforce /\ permit' = configs[n].allowed
    BY <1>0, <1>1 DEF AtRest, Asked, Last
  <2>1. last /\ InOrder(w)
    <3>1. last
      BY <1>7
    <3>2. ~torn => job[w].alone
      BY <1>4
    <3> QED
      BY <1>1, <3>1, <3>2 DEF InOrder
  <2>2. settled' = n /\ job[w].number = n
    BY <1>1, <1>4, <2>1 DEF InOrder
  <2>3. enforce' = configs[n].enforce
    BY <1>9, <1>11, <2>1, <2>2 DEF Goal
  <2>4. \A v \in Vehicles : v \in permit' <=> v \in configs[n].allowed
    BY <1>10, <1>11, <2>1, <2>2 DEF Goal
  <2>5. permit' \subseteq Vehicles /\ configs[n].allowed \subseteq Vehicles
    BY <1>6, <2>2 DEF Goal, Written1
  <2> QED
    BY <2>2, <2>3, <2>4, <2>5
<1>24. FlagThenByte'
  <2> SUFFICES ASSUME purchase = "byte", ~doubt PROVE FlagThenByte'
    BY <1>1 DEF FlagThenByte
  <2>1. PICK i \in since..n :
           /\ configs[i].enforce
           /\ \A v \in Vehicles \ permit : \E m \in i..n : v \notin configs[m].allowed
    BY <1>2 DEF FlagThenByte
  <2>2. job[w].number = n /\ n \in i..n
    BY <1>2, <1>3, <1>4, <2>1
  <2>3. ASSUME NEW v \in Vehicles \ permit'
        PROVE  \E m \in i..n : v \notin configs[m].allowed
    <3>1. v \notin permit \/ v \notin configs[n].allowed
      BY <2>2, <2>3 DEF Written1, Goal
    <3> QED
      BY <2>1, <2>2, <2>3, <3>1
  <2> QED
    BY <1>1, <2>1, <2>3 DEF FlagThenByte
<1>25. WritersInv'
  BY <1>0, <1>13, <1>14, <1>15, <1>16, <1>17, <1>18, <1>19, <1>20, <1>21, <1>22, <1>23
     DEF WritersInv, Writers
<1>26. torn' => doubt'
  BY <1>1, <1>2
<1> QED
  BY <1>24, <1>25, <1>26 DEF GateInv

LEMMA WriteKeeps ==
    ASSUME GateInv, NEW w \in Writers,
           WriteFlag(w) \/ (w = "tool" /\ (WriteCode \/ WriteSite))
    PROVE  GateInv'
<1> DEFINE s == job[w].steps
<1>1. Busy(w) /\ Advance(w)
  BY DEF WriteFlag, WriteCode, WriteSite, Busy
<1>2. /\ denySite \in {"UISet", "trampoline"} /\ code \in BOOLEAN
      /\ enforce \in BOOLEAN /\ permit \subseteq Vehicles
      /\ left \in [Writers -> SUBSET Vehicles]
  BY DEF GateInv, WritersInv, GateTypeOK
<1>3. Goal(w).enforce \in BOOLEAN
  <2>1. configs[job[w].number] \in Config
    <3>1. configs \in Seq(Config) /\ job[w].number \in 1..Len(configs)
      BY DEF GateInv, WritersInv, GateTypeOK
    <3> QED
      BY <3>1
  <2> QED
    BY <2>1 DEF Goal, Config
<1>4. CASE WriteFlag(w)
  <2>1. /\ Head(s) = "flag" /\ enforce' = Goal(w).enforce
        /\ denySite' = denySite /\ code' = code /\ permit' = permit /\ left' = left
    BY <1>4 DEF WriteFlag, Goal
  <2>2. Written1(w)
    BY <1>2, <1>3, <2>1 DEF Written1
  <2> QED
    BY <1>1, <2>2, AdvanceKeeps
<1>5. CASE w = "tool" /\ WriteCode
  <2>1. /\ Head(s) = "code" /\ code' = TRUE
        /\ denySite' = denySite /\ enforce' = enforce /\ permit' = permit /\ left' = left
    BY <1>5 DEF WriteCode
  <2>2. Written1(w)
    BY <1>2, <2>1 DEF Written1
  <2> QED
    BY <1>1, <2>2, AdvanceKeeps
<1>6. CASE w = "tool" /\ WriteSite
  <2>1. /\ Head(s) = "site" /\ denySite' \in {"UISet", "trampoline"}
        /\ code' = code /\ enforce' = enforce /\ permit' = permit /\ left' = left
    BY <1>6 DEF WriteSite, DENY_ORIG
  <2>2. Written1(w)
    BY <1>2, <2>1 DEF Written1
  <2> QED
    BY <1>1, <2>2, AdvanceKeeps
<1> QED
  BY <1>4, <1>5, <1>6

LEMMA WriteByteKeeps ==
    ASSUME GateInv, NEW w \in Writers, WriteByte(w)
    PROVE  GateInv'
<1> DEFINE u == Other(w)
           s == job[w].steps
           n == Len(configs)
<1>0. /\ u \in Writers /\ u # w /\ \A x \in Writers : x = w \/ x = u
      /\ Other(u) = w
  BY TwoWriters
<1>1. PICK b \in left[w] :
         /\ permit' = IF b \in Goal(w).allowed THEN permit \cup {b} ELSE permit \ {b}
         /\ left' = [left EXCEPT ![w] = @ \ {b}]
         /\ IF left'[w] = {} THEN Advance(w) ELSE UNCHANGED <<shop, job, gateHistory>>
  BY DEF WriteByte, Goal
<1>2. /\ Busy(w) /\ Head(s) = "table"
      /\ denySite' = denySite /\ code' = code /\ enforce' = enforce
  BY DEF WriteByte, Busy
<1>3. /\ GateTypeOK /\ Shape /\ JobOK(u) /\ JobOK(w) /\ UnderWay(w)
      /\ ArmedLast(w) /\ ArmedLast(u)
      /\ FlagAsked /\ BytesAsked /\ AtRest
      /\ torn => doubt
      /\ FlagThenByte
  BY <1>0 DEF GateInv, WritersInv
<1>4. /\ denySite \in {"UISet", "trampoline"} /\ code \in BOOLEAN
      /\ enforce \in BOOLEAN /\ permit \subseteq Vehicles
      /\ left \in [Writers -> SUBSET Vehicles] /\ DOMAIN left = Writers
      /\ n \in Nat /\ settled \in 1..n /\ since \in 1..settled /\ job[w].number \in 1..n
  BY <1>3, ConfigsAssumption DEF GateTypeOK, Shape
<1>5. b \in Vehicles /\ left[w] \subseteq Vehicles
  BY <1>1, <1>4
<1>6. /\ permit' \subseteq Vehicles
      /\ \A v \in Vehicles : v # b => (v \in permit' <=> v \in permit)
      /\ b \in permit' <=> b \in Goal(w).allowed
  BY <1>1, <1>4, <1>5
<1>7. /\ left' \in [Writers -> SUBSET Vehicles] /\ DOMAIN left' = Writers
      /\ left'[w] = left[w] \ {b}
  BY <1>1, <1>4
<1>8. CASE left'[w] = {}
  <2>1. left[w] = {b}
    BY <1>1, <1>7, <1>8
  <2>2. Written1(w)
    BY <1>2, <1>4, <1>6, <1>7, <2>1 DEF Written1
  <2>3. Advance(w)
    BY <1>1, <1>8
  <2> QED
    BY <1>2, <2>2, <2>3, AdvanceKeeps
<1>9. CASE left'[w] # {}
  <2>1. /\ job' = job /\ configs' = configs /\ settled' = settled /\ torn' = torn
        /\ pending' = pending /\ purchase' = purchase /\ vehicle' = vehicle
        /\ oktobuy' = oktobuy /\ since' = since /\ doubt' = doubt
    BY <1>1, <1>9 DEF shop, gateHistory
  <2>2. GateTypeOK' /\ Shape'
    BY <1>2, <1>3, <1>6, <1>7, <2>1 DEF GateTypeOK, Shape
  <2>3. \A x \in Writers : /\ Busy(x)' <=> Busy(x)
                           /\ Goal(x)' = Goal(x)
                           /\ \A e : Todo(x, e)' <=> Todo(x, e)
    BY <2>1 DEF Busy, Goal, Todo
  <2>4. JobOK(w)' /\ JobOK(u)'
    BY <1>2, <1>3, <2>1 DEF JobOK, Busy, Goal, Todo, Vanilla
  <2>5. ArmedLast(w)' /\ ArmedLast(u)'
    BY <1>2, <1>3, <2>1 DEF ArmedLast, Busy
  <2>6. FlagAsked'
    BY <1>2, <1>3, <2>1 DEF FlagAsked
  <2>7. job[w].number \in settled..n
    BY <1>2, <1>3, <1>4 DEF JobOK
  <2>8. BytesAsked'
    <3> SUFFICES ASSUME NEW v \in Vehicles
                 PROVE  \E i \in settled..n : v \in permit' <=> v \in configs[i].allowed
      BY <2>1 DEF BytesAsked
    <3>1. CASE v = b
      BY <1>6, <2>7, <3>1 DEF Goal
    <3>2. CASE v # b
      BY <1>3, <1>6, <3>2 DEF BytesAsked
    <3> QED
      BY <3>1, <3>2
  <2>9. AtRest'
    BY <1>2, <2>3 DEF AtRest
  <2>10. UnderWay(w)'
    <3>1. Todo(w, "table")
      <4>1. job[w].name \in JobNames \ {"idle"} /\ s \in Remaining(job[w].name)
        BY <1>2, <1>3 DEF JobOK, GateTypeOK
      <4> QED
        BY <1>2, <4>1, StepLess DEF Todo
    <3> SUFFICES ASSUME job[w].alone, Whole(job[w].name) \/ ~torn
                 PROVE  /\ ~Todo(w, "flag") => enforce = Goal(w).enforce
                        /\ \A v \in Vehicles : v \notin left'[w] =>
                              (v \in permit' <=> v \in Goal(w).allowed)
      BY <1>2, <2>1, <2>3, <3>1 DEF UnderWay, Whole
    <3>2. /\ ~Todo(w, "flag") => enforce = Goal(w).enforce
          /\ \A v \in Vehicles : v \notin left[w] =>
                (v \in permit <=> v \in Goal(w).allowed)
      BY <1>2, <1>3 DEF UnderWay
    <3> QED
      BY <1>6, <1>7, <3>2
  <2>11. UnderWay(u)'
    <3>1. Busy(u) => ~job[u].alone
      BY <1>0, <1>2, <1>3 DEF JobOK
    <3> QED
      BY <1>0, <2>1, <2>3, <3>1 DEF UnderWay
  <2>12. FlagThenByte'
    <3> SUFFICES ASSUME purchase = "byte", ~doubt PROVE FlagThenByte'
      BY <2>1 DEF FlagThenByte
    <3>1. PICK i \in since..n :
             /\ configs[i].enforce
             /\ \A v \in Vehicles \ permit : \E m \in i..n : v \notin configs[m].allowed
      BY <1>3 DEF FlagThenByte
    <3>2. job[w].number = n /\ n \in i..n
      BY <1>2, <1>3, <1>4, <3>1 DEF JobOK
    <3>3. ASSUME NEW v \in Vehicles \ permit'
          PROVE  \E m \in i..n : v \notin configs[m].allowed
      <4>1. v \notin permit \/ v \notin configs[n].allowed
        BY <1>6, <3>2 DEF Goal
      <4> QED
        BY <3>1, <3>2, <3>3, <4>1
    <3> QED
      BY <2>1, <3>1, <3>3 DEF FlagThenByte
  <2>13. WritersInv'
    BY <1>0, <2>2, <2>4, <2>5, <2>6, <2>8, <2>9, <2>10, <2>11 DEF WritersInv, Writers
  <2> QED
    BY <1>3, <2>1, <2>12, <2>13 DEF GateInv
<1> QED
  BY <1>8, <1>9

LEMMA FailKeeps ==
    ASSUME GateInv, NEW w \in Writers, Fail(w)
    PROVE  GateInv'
<1> DEFINE u == Other(w)
           n == Len(configs)
<1>0. /\ u \in Writers /\ u # w /\ \A x \in Writers : x = w \/ x = u
      /\ Other(u) = w
  BY TwoWriters
<1>1. /\ GateTypeOK /\ Shape /\ JobOK(u) /\ FlagAsked /\ BytesAsked
  BY <1>0 DEF GateInv, WritersInv
<1>2. /\ job' = [job EXCEPT ![w] = Idle] /\ left' = [left EXCEPT ![w] = {}]
      /\ torn' = TRUE /\ doubt' = TRUE
      /\ denySite' = denySite /\ code' = code /\ enforce' = enforce /\ permit' = permit
      /\ pending' = pending /\ purchase' = purchase /\ vehicle' = vehicle
      /\ oktobuy' = oktobuy /\ configs' = configs /\ settled' = settled
      /\ since' = since /\ Busy(w)
  BY DEF Fail, memory, IsIdle, Busy
<1>3. /\ DOMAIN job = Writers /\ DOMAIN left = Writers /\ DOMAIN job[u] = JobFields
      /\ left \in [Writers -> SUBSET Vehicles] /\ n \in Nat /\ 1 \in 1..n
  BY <1>0, <1>1, ConfigsAssumption DEF Shape, GateTypeOK
<1>4. /\ DOMAIN job' = Writers /\ job'[w] = Idle /\ job'[u] = job[u]
      /\ left' \in [Writers -> SUBSET Vehicles] /\ DOMAIN left' = Writers
  BY <1>0, <1>2, <1>3
<1>5. /\ Idle.name \in JobNames /\ Idle.steps = <<>> /\ Idle.number = 1
      /\ Idle.alone \in BOOLEAN /\ DOMAIN Idle = JobFields
      /\ <<>> \in Seq({"flag", "table", "code", "site"})
  BY DEF Idle, JobNames, JobFields
<1>6. ~Busy(w)'
  BY <1>4, <1>5 DEF Busy
<1>7. GateTypeOK'
  <2>1. /\ job'[w].name \in JobNames
        /\ job'[w].steps \in Seq({"flag", "table", "code", "site"})
        /\ job'[w].number \in 1..n /\ job'[w].alone \in BOOLEAN
    BY <1>3, <1>4, <1>5
  <2> QED
    BY <1>0, <1>1, <1>2, <1>4, <2>1 DEF GateTypeOK
<1>8. Shape'
  BY <1>0, <1>3, <1>4, <1>5 DEF Shape
<1>9. JobOK(w)' /\ UnderWay(w)' /\ ArmedLast(w)'
  BY <1>6 DEF JobOK, UnderWay, ArmedLast
<1>10. Busy(u) => ~job[u].alone
  BY <1>0, <1>1, <1>2 DEF JobOK
<1>11. /\ Busy(u)' <=> Busy(u)
       /\ Goal(u)' = Goal(u)
       /\ Todo(u, "code")' <=> Todo(u, "code")
  BY <1>2, <1>4 DEF Busy, Goal, Todo
<1>12. JobOK(u)'
  <2> SUFFICES ASSUME Busy(u) PROVE JobOK(u)'
    BY <1>11 DEF JobOK
  <2>1. /\ job[u].name # "idle" /\ job[u].steps \in Remaining(job[u].name)
        /\ settled <= job[u].number
        /\ job[u].name \in {"install_deny", "install_detect"} => Goal(u) = Vanilla
        /\ job[u].name = "install_deny" /\ ~Todo(u, "code") => code
    BY <1>1 DEF JobOK
  <2> QED
    BY <1>2, <1>4, <1>10, <1>11, <2>1 DEF JobOK, Vanilla
<1>13. UnderWay(u)' /\ ArmedLast(u)'
  BY <1>2, <1>4, <1>10, <1>11 DEF UnderWay, ArmedLast
<1>14. FlagAsked' /\ BytesAsked'
  BY <1>1, <1>2 DEF FlagAsked, BytesAsked
<1>15. AtRest' /\ FlagThenByte'
  BY <1>2 DEF AtRest, FlagThenByte
<1>16. WritersInv'
  BY <1>0, <1>7, <1>8, <1>9, <1>12, <1>13, <1>14, <1>15 DEF WritersInv, Writers
<1> QED
  BY <1>2, <1>15, <1>16 DEF GateInv
-----------------------------------------------------------------------------
(* The game reads.                                                         *)
LEMMA ReadingChangesNoWriter ==
    ASSUME WritersInv, UNCHANGED <<memory, writers, gateHistory>>,
           purchase' \in {"out", "flag", "byte"}, pending' \in BOOLEAN,
           vehicle' \in Vehicles, oktobuy' \in {"none", "yes", "no"},
           since' \in 1..settled, doubt' \in BOOLEAN
    PROVE  WritersInv'
<1>1. /\ denySite' = denySite /\ code' = code /\ enforce' = enforce /\ permit' = permit
      /\ job' = job /\ left' = left
      /\ configs' = configs /\ settled' = settled /\ torn' = torn
  BY DEF memory, writers, gateHistory
<1>2. GateTypeOK' /\ Shape'
  BY <1>1 DEF WritersInv, GateTypeOK, Shape
<1>3. ASSUME NEW w \in Writers PROVE JobOK(w)' /\ UnderWay(w)' /\ ArmedLast(w)'
  <2>1. JobOK(w) /\ UnderWay(w) /\ ArmedLast(w)
    BY DEF WritersInv
  <2>2. JobOK(w)'
    BY <1>1, <2>1 DEF JobOK, Busy, Goal, Todo, Vanilla
  <2>3. UnderWay(w)'
    BY <1>1, <2>1 DEF UnderWay, Busy, Goal, Todo, Whole
  <2>4. ArmedLast(w)'
    BY <1>1, <2>1 DEF ArmedLast, Busy
  <2> QED
    BY <2>2, <2>3, <2>4
<1>4. FlagAsked' /\ BytesAsked'
  BY <1>1 DEF WritersInv, FlagAsked, BytesAsked
<1>5. AtRest'
  BY <1>1 DEF WritersInv, AtRest, Busy, Asked
<1> QED
  BY <1>2, <1>3, <1>4, <1>5 DEF WritersInv

LEMMA ShopKeeps ==
    ASSUME GateInv, Shop
    PROVE  GateInv'
<1> DEFINE n == Len(configs)
<1>0. /\ WritersInv /\ GateTypeOK /\ AtRest /\ BytesAsked /\ (torn => doubt)
      /\ FlagThenByte /\ \A w \in Writers : ArmedLast(w)
  BY DEF GateInv, WritersInv
<1>1. /\ purchase \in {"out", "flag", "byte"} /\ pending \in BOOLEAN
      /\ vehicle \in Vehicles /\ oktobuy \in {"none", "yes", "no"}
      /\ n \in Nat /\ settled \in 1..n /\ since \in 1..settled
      /\ torn \in BOOLEAN /\ doubt \in BOOLEAN /\ permit \subseteq Vehicles
  BY <1>0, ConfigsAssumption DEF GateTypeOK
<1>2. CASE Forward \/ Deny
  <2>1. /\ UNCHANGED <<memory, writers, gateHistory>>
        /\ purchase' = "out" /\ pending' \in BOOLEAN /\ vehicle' \in Vehicles
        /\ oktobuy' \in {"yes", "no"} /\ since' = since /\ doubt' = doubt /\ torn' = torn
    BY <1>1, <1>2 DEF Forward, Deny, gateHistory
  <2>2. WritersInv'
    BY <1>0, <1>1, <2>1, ReadingChangesNoWriter
  <2> QED
    BY <1>0, <2>1, <2>2 DEF GateInv, FlagThenByte
<1>3. ASSUME NEW v \in Vehicles, Confirm(v) PROVE GateInv'
  <2>1. /\ UNCHANGED <<memory, writers, gateHistory>>
        /\ purchase' \in {"out", "flag"} /\ pending' \in BOOLEAN /\ vehicle' \in Vehicles
        /\ oktobuy' \in {"none", "yes", "no"} /\ since' = settled /\ doubt' = torn
        /\ torn' = torn
    BY <1>1, <1>3 DEF Confirm, gateHistory
  <2>2. settled \in 1..settled
    BY <1>1
  <2>3. WritersInv'
    BY <1>0, <1>1, <2>1, <2>2, ReadingChangesNoWriter
  <2> QED
    BY <2>1, <2>3 DEF GateInv, FlagThenByte
<1>4. CASE ReadFlag
  <2>1. /\ UNCHANGED <<memory, writers, gateHistory>> /\ enforce
        /\ purchase' = "byte" /\ pending' = pending /\ vehicle' = vehicle
        /\ oktobuy' = oktobuy /\ since' = since /\ doubt' = doubt
        /\ torn' = torn /\ configs' = configs /\ permit' = permit
    BY <1>4 DEF ReadFlag, gateHistory, memory
  <2>2. WritersInv'
    BY <1>0, <1>1, <2>1, ReadingChangesNoWriter
  <2>3. ASSUME ~doubt
        PROVE  \E i \in since..n :
                  /\ configs[i].enforce
                  /\ \A v \in Vehicles \ permit : \E m \in i..n : v \notin configs[m].allowed
    <3>1. CASE \A w \in Writers : ~Busy(w)
      <4>1. settled = n /\ enforce = configs[n].enforce /\ permit = configs[n].allowed
        BY <1>0, <2>3, <3>1 DEF AtRest, Asked, Last
      <4>2. n \in since..n /\ n \in n..n
        BY <1>1, <4>1
      <4> QED
        BY <2>1, <4>1, <4>2
    <3>2. ASSUME NEW w \in Writers, Busy(w)
          PROVE  \E i \in since..n :
                    /\ configs[i].enforce
                    /\ \A v \in Vehicles \ permit : \E m \in i..n : v \notin configs[m].allowed
      <4>1. configs[settled].enforce
        BY <1>0, <2>1, <2>3, <3>2 DEF ArmedLast
      <4>2. settled \in since..n
        BY <1>1
      <4>3. \A v \in Vehicles \ permit : \E m \in settled..n : v \notin configs[m].allowed
        BY <1>0 DEF BytesAsked
      <4> QED
        BY <4>1, <4>2, <4>3
    <3> QED
      BY <3>1, <3>2
  <2>4. FlagThenByte'
    BY <2>1, <2>3 DEF FlagThenByte
  <2> QED
    BY <1>0, <2>1, <2>2, <2>4 DEF GateInv
<1> QED
  BY <1>2, <1>3, <1>4 DEF Shop
-----------------------------------------------------------------------------
LEMMA GateInitInv == GateInit => GateInv
<1> SUFFICES ASSUME GateInit PROVE GateInv
  OBVIOUS
<1>1. /\ \A w \in Writers : job[w] = Idle
      /\ DOMAIN job = Writers /\ DOMAIN left = Writers
      /\ left \in [Writers -> SUBSET Vehicles]
  BY DEF GateInit
<1>2. /\ Idle.name \in JobNames /\ Idle.steps = <<>> /\ Idle.number = 1
      /\ Idle.alone \in BOOLEAN /\ DOMAIN Idle = JobFields
      /\ <<>> \in Seq({"flag", "table", "code", "site"})
  BY DEF Idle, JobNames, JobFields
<1>3. /\ Len(configs) = 1 /\ configs \in Seq(Config)
      /\ configs[1].enforce = FALSE /\ configs[1].allowed = {}
  <2>1. [enforce |-> FALSE, allowed |-> {}] \in Config
    BY DEF Config
  <2> QED
    BY <2>1 DEF GateInit
<1>4. \A w \in Writers : ~Busy(w)
  BY <1>1, <1>2 DEF Busy
<1>5. GateTypeOK
  <2>1. /\ Len(configs) \in 1..MaxConfigs /\ 1 \in 1..Len(configs)
        /\ settled \in 1..Len(configs) /\ since \in 1..settled
    BY <1>3, ConfigsAssumption DEF GateInit
  <2>2. /\ denySite \in {"UISet", "trampoline"}
        /\ code \in BOOLEAN /\ enforce \in BOOLEAN /\ permit \in SUBSET Vehicles
        /\ pending \in BOOLEAN /\ purchase \in {"out", "flag", "byte"}
        /\ vehicle \in Vehicles /\ oktobuy \in {"none", "yes", "no"}
        /\ torn \in BOOLEAN /\ doubt \in BOOLEAN
    BY DEF GateInit
  <2>3. ASSUME NEW w \in Writers
        PROVE  /\ job[w].name \in JobNames
               /\ job[w].steps \in Seq({"flag", "table", "code", "site"})
               /\ job[w].number \in 1..Len(configs)
               /\ job[w].alone \in BOOLEAN
    BY <1>1, <1>2, <2>1
  <2> QED
    BY <1>1, <1>3, <2>1, <2>2, <2>3 DEF GateTypeOK
<1>6. Shape
  BY <1>1, <1>2 DEF Shape
<1>7. \A w \in Writers : JobOK(w) /\ UnderWay(w) /\ ArmedLast(w)
  BY <1>4 DEF JobOK, UnderWay, ArmedLast
<1>8. 1 \in settled..Len(configs) /\ settled = 1
  BY <1>3 DEF GateInit
<1>9. FlagAsked /\ BytesAsked /\ AtRest
  BY <1>3, <1>8 DEF FlagAsked, BytesAsked, AtRest, Asked, Last, GateInit
<1>10. ~torn /\ FlagThenByte
  BY DEF FlagThenByte, GateInit
<1> QED
  BY <1>5, <1>6, <1>7, <1>9, <1>10 DEF GateInv, WritersInv

LEMMA GateNextInv == GateInv /\ [GateNext]_gateVars => GateInv'
<1> SUFFICES ASSUME GateInv, [GateNext]_gateVars PROVE GateInv'
  OBVIOUS
<1>1. CASE Client \/ GateTool
  BY <1>1, JobsAreSound
<1>2. CASE Write
  BY <1>2, WriteKeeps, WriteByteKeeps, FailKeeps, TwoWriters DEF Write, Writers
<1>3. CASE Shop
  BY <1>3, ShopKeeps
<1>4. CASE UNCHANGED gateVars
  <2>1. /\ UNCHANGED <<memory, writers, gateHistory>>
        /\ pending' = pending /\ purchase' = purchase /\ vehicle' = vehicle
        /\ oktobuy' = oktobuy /\ since' = since /\ doubt' = doubt
    BY <1>4 DEF gateVars, shop
  <2>2. /\ torn' = torn /\ configs' = configs /\ permit' = permit
    BY <2>1 DEF gateHistory, memory
  <2>3. GateTypeOK
    BY DEF GateInv, WritersInv
  <2>4. WritersInv'
    BY <2>1, <2>3, ReadingChangesNoWriter DEF GateInv, GateTypeOK
  <2> QED
    BY <2>1, <2>2, <2>4 DEF GateInv, FlagThenByte
<1> QED
  BY <1>1, <1>2, <1>3, <1>4 DEF GateNext

\* The deny gate's types, for every vehicle set and every bound.
THEOREM GateTypeOKTheorem == GateSpec => []GateTypeOK
<1>1. GateInv => GateTypeOK
  BY DEF GateInv, WritersInv
<1> QED
  BY GateInitInv, GateNextInv, <1>1, PTL DEF GateSpec

\* PermitGate.PurchasesFollowConfigs.  A purchase let through is one some
\* configuration of its time lets through, for FlagAsked and BytesAsked; one
\* denied while nothing was torn was to be denied by FlagThenByte; and the
\* tool's last write of an undisturbed installation finds the code in place
\* (JobOK) and a gate that lets everything through (UnderWay).
THEOREM PurchasesFollowConfigsTheorem == GateSpec => PurchasesFollowConfigs
<1>1. ASSUME GateInv, Forward PROVE MayForward
  <2>1. /\ FlagAsked /\ BytesAsked /\ vehicle \in Vehicles
        /\ Len(configs) \in Nat /\ settled \in 1..Len(configs) /\ since \in 1..settled
    BY <1>1, ConfigsAssumption DEF GateInv, WritersInv, GateTypeOK
  <2>2. settled..Len(configs) \subseteq Window
    BY <2>1 DEF Window
  <2>3. CASE ~enforce
    BY <2>1, <2>2, <2>3 DEF FlagAsked, MayForward, Lets
  <2>4. CASE vehicle \in permit
    BY <2>1, <2>2, <2>4 DEF BytesAsked, MayForward, Lets
  <2> QED
    BY <1>1, <2>3, <2>4 DEF Forward
<1>2. ASSUME GateInv, Deny, ~doubt PROVE MayDeny
  <2>1. /\ purchase = "byte" /\ vehicle \in Vehicles \ permit
        /\ Len(configs) \in Nat /\ settled \in 1..Len(configs) /\ since \in 1..settled
    BY <1>2, ConfigsAssumption DEF GateInv, WritersInv, GateTypeOK, Deny
  <2>2. PICK i \in since..Len(configs) :
           /\ configs[i].enforce
           /\ \A v \in Vehicles \ permit : \E m \in i..Len(configs) :
                 v \notin configs[m].allowed
    BY <1>2, <2>1 DEF GateInv, FlagThenByte
  <2>3. PICK m \in i..Len(configs) : vehicle \notin configs[m].allowed
    BY <2>1, <2>2
  <2>4. i \in Window /\ m \in Window /\ i <= m
    BY <2>1, <2>2, <2>3 DEF Window
  <2> QED
    BY <2>2, <2>3, <2>4 DEF MayDeny
<1>3. ASSUME GateInv, GateNext, PatchesSite, job["tool"].alone
      PROVE  code /\ ~enforce /\ permit = Vehicles
  <2>1. WriteSite
    <3>1. denySite' # denySite
      BY <1>3 DEF PatchesSite
    <3>2. ~Shop
      BY <3>1 DEF Shop, Forward, ReadFlag, Deny, Confirm, memory
    <3>3. ~Client
      BY <3>1 DEF Client, AllowAll, Apply, Begin, memory
    <3>4. ~GateTool
      BY <3>1 DEF GateTool, InstallDeny, RestoreDeny, ZeroMailbox, PermitAllowAll,
                  PermitDenyAll, Enforce, PermitSet, Begin, memory
    <3>5. Write
      BY <1>3, <3>2, <3>3, <3>4 DEF GateNext
    <3> QED
      BY <3>1, <3>5 DEF Write, WriteCode, WriteByte, WriteFlag, Fail, memory
  <2>2. /\ job["tool"].steps # <<>> /\ Head(job["tool"].steps) = "site"
        /\ job["tool"].name = "install_deny"
    BY <1>3, <2>1 DEF WriteSite, PatchesSite, DENY_ORIG
  <2>3. /\ "tool" \in Writers /\ JobOK("tool") /\ UnderWay("tool") /\ permit \subseteq Vehicles
    BY <1>3, TwoWriters DEF GateInv, WritersInv, GateTypeOK, Writers
  <2>4. /\ job["tool"].steps \in Remaining("install_deny")
        /\ Goal("tool") = Vanilla
        /\ ~Todo("tool", "code") => code
    BY <2>2, <2>3 DEF JobOK, Busy
  <2>5. ~Todo("tool", "code") /\ ~Todo("tool", "flag") /\ ~Todo("tool", "table")
    BY <2>2, <2>4, StepLess DEF Todo, JobNames
  <2>6. /\ enforce = Vanilla.enforce
        /\ \A v \in Vehicles : v \in permit <=> v \in Vanilla.allowed
    BY <1>3, <2>2, <2>3, <2>4, <2>5 DEF UnderWay, Busy, Whole
  <2> QED
    BY <2>3, <2>4, <2>5, <2>6 DEF Vanilla
<1>4. GateInv /\ [GateNext]_gateVars =>
         [/\ Forward => MayForward
          /\ Deny /\ ~doubt => MayDeny
          /\ PatchesSite /\ job["tool"].alone =>
                code /\ ~enforce /\ permit = Vehicles]_gateVars
  BY <1>1, <1>2, <1>3
<1> QED
  BY GateInitInv, GateNextInv, <1>4, PTL DEF GateSpec, PurchasesFollowConfigs
=============================================================================
