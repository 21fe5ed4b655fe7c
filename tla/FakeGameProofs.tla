--------------------------- MODULE FakeGameProofs ---------------------------
(***************************************************************************)
(* Gates and FakeGame for every seed: the reducer's gates agree with the   *)
(* gate engine's and never shut again, so that a city the player was let   *)
(* into stays legal; the reducer is monotonic, so that no desired state    *)
(* takes anything back; and the garage gets each grant once.               *)
(***************************************************************************)
EXTENDS FakeGame, Arithmetic, FiniteSetTheorems, TLAPS

Inventory == {s \in [Items -> SUBSET Nat] : \A i \in Items : IsFiniteSet(s[i])}

\* Nothing that s has is missing in t.
Below(s, t) == \A i \in Items : s[i] \subseteq t[i]
-----------------------------------------------------------------------------
(* A name counts as often as it was received.                              *)
LEMMA CountType ==
  ASSUME NEW s \in Inventory, NEW n
  PROVE  Count(s, n) \in Nat
<1>1. CASE n \in Names
  <2>1. IdOf(n) \in Items
    BY <1>1 DEF IdOf, Names, Items, Range
  <2> QED
    BY <1>1, <2>1, FS_CardinalityType DEF Count, Inventory
<1>2. CASE n \notin Names
  BY <1>2 DEF Count
<1> QED
  BY <1>1, <1>2

(* More received, none counted less (item_counts).                         *)
LEMMA CountGrows ==
  ASSUME NEW s \in Inventory, NEW t \in Inventory, Below(s, t), NEW n
  PROVE  Count(s, n) <= Count(t, n)
<1>1. CASE n \in Names
  <2>1. IdOf(n) \in Items
    BY <1>1 DEF IdOf, Names, Items, Range
  <2>2. s[IdOf(n)] \in SUBSET t[IdOf(n)] /\ IsFiniteSet(t[IdOf(n)])
    BY <2>1 DEF Below, Inventory
  <2>3. Cardinality(s[IdOf(n)]) <= Cardinality(t[IdOf(n)])
    BY <2>2, FS_Subset
  <2> QED
    BY <1>1, <2>3 DEF Count
<1>2. CASE n \notin Names
  BY <1>2 DEF Count
<1> QED
  BY <1>1, <1>2

(* More received, none unowned (owned_item_names).                         *)
LEMMA OwnedGrows ==
  ASSUME NEW s \in Inventory, NEW t \in Inventory, Below(s, t)
  PROVE  owned_item_names(s) \subseteq owned_item_names(t)
BY DEF owned_item_names, Below, Inventory

(* What a gate asks for, as the reducer may use it.                        *)
LEMMA GateFacts ==
  ASSUME NEW g \in GateTable
  PROVE  \A n \in DOMAIN g.counts : g.counts[n] \in Nat
BY GatesAssumption DEF GateType, Range

(* A gate that passed passes with more items and more checks: the reducer's *)
(* "locks only open" (_gate_passed).                                        *)
LEMMA GateStaysOpen ==
  ASSUME NEW g \in GateTable,
         NEW s \in Inventory, NEW t \in Inventory, Below(s, t),
         NEW c, NEW d, c \subseteq d,
         GatePassed(g, s, c)
  PROVE  GatePassed(g, t, d)
<1> DEFINE owned == owned_item_names(s)
           more == owned_item_names(t)
<1>1. owned \subseteq more
  BY OwnedGrows
<1>2. g.items \subseteq more
  BY <1>1 DEF GatePassed
<1>3. AnyGroup(g, more)
  BY <1>1 DEF GatePassed, AnyGroup
<1>4. Enough(g, t)
  <2> SUFFICES ASSUME NEW n \in DOMAIN g.counts
               PROVE  Count(t, n) >= g.counts[n]
    BY DEF Enough
  <2>1. Count(s, n) >= g.counts[n]
    BY DEF GatePassed, Enough
  <2> QED
    BY <2>1, CountGrows, CountType, GateFacts
<1>5. \A name \in g.locations : \E l \in LocationsOf(name) : l \in d
  BY DEF GatePassed
<1> QED
  BY <1>2, <1>3, <1>4, <1>5 DEF GatePassed

(* So what a kind of gates opens only grows (reduce_desired_state).         *)
LEMMA OpenedGrows ==
  ASSUME NEW s \in Inventory, NEW t \in Inventory, Below(s, t),
         NEW c, NEW d, c \subseteq d, NEW k
  PROVE  Opened(k, s, c) \subseteq Opened(k, t, d)
BY GateStaysOpen DEF Opened

(* The rest of what the reducer grants grows as well.                       *)
LEMMA GrantedGrows ==
  ASSUME NEW s \in Inventory, NEW t \in Inventory, Below(s, t)
  PROVE  Granted(s) \subseteq Granted(t)
<1> SUFFICES ASSUME NEW g \in Granted(s) PROVE g \in Granted(t)
  OBVIOUS
<1>1. PICK i \in {j \in Items : ItemName[j] \in DOMAIN Grants} :
              g \in {<<Grants[ItemName[i]], index>> : index \in s[i]}
  BY DEF Granted
<1>2. g \in {<<Grants[ItemName[i]], index>> : index \in t[i]}
  BY <1>1 DEF Below
<1> QED BY <1>1, <1>2 DEF Granted

LEMMA ImageIsFinite ==
  ASSUME NEW S, IsFiniteSet(S), NEW f
  PROVE  IsFiniteSet({f[x] : x \in S})
<1> DEFINE g == [x \in S |-> f[x]]
           T == {f[x] : x \in S}
<1>1. g \in Surjection(S, T)
  BY DEF Surjection
<1> QED BY <1>1, FS_Surjection

(* Each item was received finitely often, so finitely much was granted.     *)
LEMMA GrantedIsFinite ==
  ASSUME NEW s \in Inventory
  PROVE  IsFiniteSet(Granted(s))
<1> DEFINE I == {j \in Items : ItemName[j] \in DOMAIN Grants}
           Of(i) == {<<Grants[ItemName[i]], index>> : index \in s[i]}
<1>1. IsFiniteSet(I)
  BY TablesAssumption, FS_Subset DEF Items
<1>2. IsFiniteSet({Of(i) : i \in I})
  <2> DEFINE f == [i \in I |-> Of(i)]
  <2>1. {f[i] : i \in I} = {Of(i) : i \in I}
    OBVIOUS
  <2>2. IsFiniteSet({f[i] : i \in I})
    BY <1>1, ImageIsFinite
  <2> QED BY <2>1, <2>2
<1>3. ASSUME NEW i \in I PROVE IsFiniteSet(Of(i))
  <2>1. IsFiniteSet(s[i])
    BY DEF Inventory
  <2> DEFINE f == [index \in s[i] |-> <<Grants[ItemName[i]], index>>]
  <2>2. {f[index] : index \in s[i]} = Of(i)
    OBVIOUS
  <2>3. IsFiniteSet({f[index] : index \in s[i]})
    BY <2>1, ImageIsFinite
  <2> QED BY <2>2, <2>3
<1>4. IsFiniteSet(UNION {Of(i) : i \in I})
  BY <1>2, <1>3, FS_UNION
<1> QED BY <1>4 DEF Granted

LEMMA PacksAreFinite == IsFiniteSet(Names \cap DOMAIN Price)
<1>1. Names = {ItemName[i] : i \in Items}
  BY DEF Names, Range, Items
<1>2. IsFiniteSet({ItemName[i] : i \in Items})
  BY TablesAssumption, ImageIsFinite DEF Items
<1> QED BY <1>1, <1>2, FS_Subset

LEMMA MoneyGrows ==
  ASSUME NEW s \in Inventory, NEW t \in Inventory, Below(s, t)
  PROVE  /\ Money(s) \in Nat /\ Money(t) \in Nat
         /\ Money(s) <= Money(t)
<1> DEFINE packs == Names \cap DOMAIN Price
           f == [n \in packs |-> Price[n] * Count(s, n)]
           g == [n \in packs |-> Price[n] * Count(t, n)]
<1>1. \A a, b, c \in Nat : /\ a * b \in Nat
                           /\ b <= c => a * b <= a * c
  <2>1. \A a, b, c \in Nat : b <= c => a * c = a * b + a * (c - b)
    OBVIOUS
  <2>2. \A a, b \in Nat : a * b \in Nat
    OBVIOUS
  <2>3. \A b, c \in Nat : b <= c => c - b \in Nat
    OBVIOUS
  <2> SUFFICES ASSUME NEW a \in Nat, NEW b \in Nat, NEW c \in Nat
               PROVE  a * b \in Nat /\ (b <= c => a * b <= a * c)
    OBVIOUS
  <2>4. a * b \in Nat /\ a * c \in Nat
    BY <2>2
  <2>5. b <= c => a * (c - b) \in Nat /\ a * c = a * b + a * (c - b)
    BY <2>1, <2>2, <2>3
  <2> QED BY <2>4, <2>5
<1>2. ASSUME NEW n \in packs
      PROVE  /\ f[n] \in Nat /\ g[n] \in Nat
             /\ f[n] <= g[n]
  <2> DEFINE p == Price[n]
             b == Count(s, n)
             c == Count(t, n)
  <2>1. p \in Nat /\ b \in Nat /\ c \in Nat /\ b <= c
    BY TablesAssumption, CountType, CountGrows
  <2>2. f[n] = p * b /\ g[n] = p * c
    OBVIOUS
  <2> HIDE DEF p, b, c, f, g
  <2> QED BY <1>1, <2>1, <2>2
<1>3. IsFiniteSet(packs) /\ DOMAIN f = packs /\ DOMAIN g = packs
  BY PacksAreFinite
<1>4. Money(s) = SumFunctionOnSet(f, packs) /\ Money(t) = SumFunctionOnSet(g, packs)
  BY DEF Money, SumFunction
<1> HIDE DEF packs, f, g
<1>5. SumFunctionOnSet(f, packs) \in Nat /\ SumFunctionOnSet(g, packs) \in Nat
  BY <1>2, <1>3, SumOverSet
<1>6. SumFunctionOnSet(f, packs) <= SumFunctionOnSet(g, packs)
  BY <1>2, <1>3, SumOfLarger
<1> QED BY <1>4, <1>5, <1>6

LEMMA SlotsGrow ==
  ASSUME NEW s \in Inventory, NEW t \in Inventory, Below(s, t)
  PROVE  /\ Slots(s) \in Nat /\ Slots(t) \in Nat
         /\ BaseSlots <= Slots(s) /\ Slots(s) <= Slots(t)
<1> DEFINE a == Count(s, SlotItem)
           b == Count(t, SlotItem)
<1>1. a \in Nat /\ b \in Nat /\ a <= b
  BY CountType, CountGrows
<1>2. /\ Slots(s) = IF BaseSlots + a <= SlotCap THEN BaseSlots + a ELSE SlotCap
      /\ Slots(t) = IF BaseSlots + b <= SlotCap THEN BaseSlots + b ELSE SlotCap
  BY <1>1, SlotsAssumption, MinOfTwo DEF Slots
<1> HIDE DEF a, b
<1> QED BY <1>1, <1>2, SlotsAssumption

LEMMA TiersGrow ==
  ASSUME NEW s \in Inventory, NEW t \in Inventory, Below(s, t),
         NEW c, NEW d, c \subseteq d, IsFiniteSet(d)
  PROVE  TiersReached(s, c) \subseteq TiersReached(t, d)
<1>1. /\ Cardinality(c \cap LogoLocations) \in Nat
      /\ Cardinality(d \cap LogoLocations) \in Nat
      /\ Cardinality(c \cap LogoLocations) <= Cardinality(d \cap LogoLocations)
  <2>1. d \cap LogoLocations \in SUBSET d
    OBVIOUS
  <2>2. IsFiniteSet(d \cap LogoLocations)
    BY <2>1, FS_Subset
  <2>3. c \cap LogoLocations \in SUBSET (d \cap LogoLocations)
    OBVIOUS
  <2> QED BY <2>2, <2>3, FS_Subset, FS_CardinalityType
<1>2. owned_item_names(s) \subseteq owned_item_names(t)
  BY OwnedGrows
<1>3. \A x \in DOMAIN Tiers : Tiers[x] \in Nat
  BY TablesAssumption
<1> QED BY <1>1, <1>2, <1>3 DEF TiersReached

LEMMA GoalStays ==
  ASSUME NEW s \in Inventory, NEW t \in Inventory, Below(s, t),
         NEW c, NEW d, c \subseteq d, GoalComplete(s, c)
  PROVE  GoalComplete(t, d)
BY OwnedGrows DEF GoalComplete

\* Nothing that x has of a desired state is missing in y.
NoLess(x, y) ==
    /\ \A k \in Kinds : x.allowed[k] \subseteq y.allowed[k]
    /\ x.granted \subseteq y.granted
    /\ x.money <= y.money
    /\ x.slots <= y.slots
    /\ x.tiers \subseteq y.tiers
    /\ x.goal => y.goal

(* The reducer is monotonic: more items and more checks, no less of         *)
(* anything (reduce_desired_state, "receiving items never removes           *)
(* unlocks").                                                               *)
THEOREM ReducerIsMonotonic ==
  ASSUME NEW s \in Inventory, NEW t \in Inventory, Below(s, t),
         NEW c, NEW d, c \subseteq d, IsFiniteSet(d)
  PROVE  NoLess(reduce_desired_state(s, c), reduce_desired_state(t, d))
<1> DEFINE x == reduce_desired_state(s, c)
           y == reduce_desired_state(t, d)
<1>1. \A k \in Kinds : x.allowed[k] = Opened(k, s, c)
  BY DEF reduce_desired_state
<1>2. \A k \in Kinds : y.allowed[k] = Opened(k, t, d)
  BY DEF reduce_desired_state
<1>3. /\ x.granted = Granted(s) /\ x.money = Money(s) /\ x.slots = Slots(s)
      /\ x.tiers = TiersReached(s, c) /\ x.goal = GoalComplete(s, c)
  BY DEF reduce_desired_state
<1>4. /\ y.granted = Granted(t) /\ y.money = Money(t) /\ y.slots = Slots(t)
      /\ y.tiers = TiersReached(t, d) /\ y.goal = GoalComplete(t, d)
  BY DEF reduce_desired_state
<1>5. \A k : Opened(k, s, c) \subseteq Opened(k, t, d)
  BY OpenedGrows
<1>6. Granted(s) \subseteq Granted(t)
  BY GrantedGrows
<1>7. Money(s) <= Money(t)
  BY MoneyGrows
<1>8. Slots(s) <= Slots(t)
  BY SlotsGrow
<1>9. TiersReached(s, c) \subseteq TiersReached(t, d)
  BY TiersGrow
<1>10. GoalComplete(s, c) => GoalComplete(t, d)
  BY GoalStays
<1> HIDE DEF x, y
<1>11. NoLess(x, y)
  BY <1>1, <1>2, <1>3, <1>4, <1>5, <1>6, <1>7, <1>8, <1>9, <1>10 DEF NoLess
<1> QED BY <1>11 DEF x, y

(* The reducer and the gate engine decide every gate alike, given the names *)
(* of the locations whose ids were checked; the generator's rule lets       *)
(* through whatever they do.                                                *)
LEMMA GatesAgreeOnAll ==
  ASSUME NEW g \in GateTable, NEW s \in Inventory, NEW c
  PROVE  LET owned == owned_item_names(s)
             names == {LocationName[l] : l \in c \cap DOMAIN LocationName}
         IN /\ GatePassed(g, s, c) <=> evaluate_gate(g, owned, s, names)
            /\ GatePassed(g, s, c) => rule(g, owned)
<1> DEFINE owned == owned_item_names(s)
           names == {LocationName[l] : l \in c \cap DOMAIN LocationName}
           items == {<<"item", n>> : n \in g.items \ owned}
           any == IF g.any # {} /\ \A group \in g.any : group \ owned # {}
                  THEN {<<"any", g.any>>} ELSE {}
           counts == {<<"count", n>> : n \in {m \in DOMAIN g.counts :
                                                Count(s, m) < g.counts[m]}}
           locs == {<<"loc", n>> : n \in g.locations \ names}
<1>1. missing(g, owned, s, names) = items \cup any \cup counts \cup locs
  BY DEF missing
<1>2. items = {} <=> g.items \subseteq owned
  OBVIOUS
<1>3. any = {} <=> AnyGroup(g, owned)
  BY DEF AnyGroup
<1>4. counts = {} <=> Enough(g, s)
  <2>1. \A n \in DOMAIN g.counts :
           Count(s, n) < g.counts[n] <=> ~(Count(s, n) >= g.counts[n])
    BY CountType, GateFacts
  <2>2. counts = {} <=> \A n \in DOMAIN g.counts : ~(Count(s, n) < g.counts[n])
    OBVIOUS
  <2> QED
    BY <2>1, <2>2 DEF Enough
<1>5. locs = {} <=> \A n \in g.locations : \E l \in LocationsOf(n) : l \in c
  <2>1. \A n : n \in names <=> \E l \in LocationsOf(n) : l \in c
    BY DEF LocationsOf
  <2>2. locs = {} <=> g.locations \subseteq names
    OBVIOUS
  <2> QED
    BY <2>1, <2>2
<1>6. GatePassed(g, s, c) <=> evaluate_gate(g, owned, s, names)
  <2>1. evaluate_gate(g, owned, s, names) <=>
           items = {} /\ any = {} /\ counts = {} /\ locs = {}
    BY <1>1 DEF evaluate_gate
  <2>2. GatePassed(g, s, c) <=>
           /\ g.items \subseteq owned /\ AnyGroup(g, owned) /\ Enough(g, s)
           /\ \A n \in g.locations : \E l \in LocationsOf(n) : l \in c
    BY DEF GatePassed
  <2> HIDE DEF items, any, counts, locs, owned, names
  <2> QED
    BY <2>1, <2>2, <1>2, <1>3, <1>4, <1>5
<1>7. GatePassed(g, s, c) => rule(g, owned)
  BY DEF GatePassed, AnyGroup, rule
<1> QED
  BY <1>6, <1>7
-----------------------------------------------------------------------------
\* What the game was given is still earned, and a gated travel led to it.
Earned == given => desired.allowed["city"]
                      \subseteq Opened("city", instances, checked)
Arrived == travelled = "gated" => given /\ city \in desired.allowed["city"]

IInv == /\ instances \in Inventory
        /\ received \in Nat
        /\ Earned
        /\ Arrived

(* What the reducer says of the cities is what the city gates say.         *)
LEMMA ReducedCities ==
  Reduced.allowed["city"] = Opened("city", instances, checked)
BY DEF Reduced, reduce_desired_state, Kinds

LEMMA IInvInit == Init => IInv
<1> SUFFICES ASSUME Init PROVE IInv
  OBVIOUS
<1>1. instances \in Inventory
  BY FS_EmptySet DEF Init, Inventory
<1> QED
  BY <1>1 DEF Init, IInv, Earned, Arrived

(* Items and checks only grow, so what was earned stays earned.             *)
LEMMA StillEarned ==
  ASSUME IInv, instances' \in Inventory, Below(instances, instances'),
         checked \subseteq checked', UNCHANGED orders
  PROVE  Earned'
BY OpenedGrows DEF IInv, Earned, orders

LEMMA IInvReceive ==
  ASSUME IInv, NEW i \in Items, Receive(i)
  PROVE  IInv'
<1>1. /\ instances' = [instances EXCEPT ![i] = @ \cup {received}]
      /\ received' = received + 1 /\ checked' = checked
      /\ UNCHANGED <<orders, city, travelled>>
  BY DEF Receive, place
<1>2. instances' \in Inventory
  <2>1. IsFiniteSet(instances[i] \cup {received})
    BY FS_AddElement DEF IInv, Inventory
  <2> QED
    BY <1>1, <2>1 DEF IInv, Inventory
<1>3. Below(instances, instances')
  BY <1>1 DEF Below, IInv, Inventory
<1>4. Earned'
  BY <1>1, <1>2, <1>3, StillEarned
<1>5. Arrived'
  BY <1>1 DEF IInv, Arrived, orders
<1> QED
  BY <1>1, <1>2, <1>4, <1>5 DEF IInv

(* A new desired state allows every city that the old one did.             *)
LEMMA IInvSetDesired == IInv /\ set_desired_state => IInv'
<1> SUFFICES ASSUME IInv, set_desired_state PROVE IInv'
  OBVIOUS
<1>1. /\ given' /\ desired' = Reduced
      /\ UNCHANGED <<instances, received, checked, city, travelled>>
  BY DEF set_desired_state, client, place
<1>2. desired'.allowed["city"] = Opened("city", instances, checked)
  BY <1>1, ReducedCities
<1>3. Earned'
  BY <1>1, <1>2 DEF Earned
<1>4. Arrived'
  BY <1>1, <1>2 DEF IInv, Earned, Arrived
<1> QED
  BY <1>1, <1>3, <1>4 DEF IInv

(* A travel under a desired state leads to a city it allows.               *)
LEMMA IInvTravel ==
  ASSUME IInv, NEW c \in Cities, travel_to_city(c)
  PROVE  IInv'
<1>1. /\ MayVisit(c) /\ city' = c
      /\ travelled' = IF given THEN "gated" ELSE "free"
      /\ UNCHANGED <<instances, received, orders>>
      /\ checked \subseteq checked'
  BY DEF travel_to_city, Check
<1>2. Earned'
  BY <1>1, StillEarned DEF IInv, Below
<1>3. Arrived'
  BY <1>1 DEF Arrived, MayVisit, orders
<1> QED
  BY <1>1, <1>2, <1>3 DEF IInv

(* Every other step leaves the orders and the city alone and adds checks at *)
(* most.                                                                    *)
LEMMA IInvOther ==
  ASSUME IInv, UNCHANGED <<instances, received, orders, city, travelled>>,
         checked \subseteq checked'
  PROVE  IInv'
<1>1. Earned'
  BY StillEarned DEF IInv, Below
<1> QED
  BY <1>1 DEF IInv, Arrived, orders

LEMMA IInvStep == IInv /\ [Next]_vars => IInv'
<1> SUFFICES ASSUME IInv, [Next]_vars PROVE IInv'
  OBVIOUS
<1>1. CASE set_desired_state
  BY <1>1, IInvSetDesired
<1>2. CASE reconcile
  BY <1>2, IInvOther DEF reconcile, client, place
<1>3. ASSUME NEW i \in Items, Receive(i) PROVE IInv'
  BY <1>3, IInvReceive
<1>4. ASSUME NEW c \in Cities, travel_to_city(c) PROVE IInv'
  BY <1>4, IInvTravel
<1>5. ASSUME NEW e \in Events, select_event(e) \/ attempt_start_event(e)
      PROVE  IInv'
  BY <1>5, IInvOther DEF select_event, attempt_start_event, client
<1>6. CASE win_race
  BY <1>6, IInvOther DEF win_race, Check, place
<1>7. ASSUME NEW v \in Vehicles, NEW price \in Prices,
             purchase_vehicle(v, price)
      PROVE  IInv'
  BY <1>7, IInvOther DEF purchase_vehicle, Check, place
<1>8. ASSUME NEW l \in Logos, collect_logo(l) PROVE IInv'
  BY <1>8, IInvOther DEF collect_logo, Check, place
<1>9. ASSUME NEW a \in Abilities, activate_ability(a) PROVE IInv'
  BY <1>9, IInvOther DEF activate_ability, client, place
<1>10. CASE UNCHANGED vars
  BY <1>10, IInvOther DEF vars, client, place
<1> QED
  BY <1>1, <1>2, <1>3, <1>4, <1>5, <1>6, <1>7, <1>8, <1>9, <1>10
     DEF Next, Client, Player

(* For every seed: a city the gate let the player into is never one the     *)
(* reconciliation check complains of, whatever is received later.           *)
THEOREM TravelStaysLegalTheorem == Spec => []TravelStaysLegal
<1>1. IInv => TravelStaysLegal
  BY DEF IInv, Arrived, TravelStaysLegal, Violations
<1> QED
  BY IInvInit, IInvStep, <1>1, PTL DEF Spec

(* For every seed: reducer, gate engine and the generator's rule agree on   *)
(* every gate of it, whatever was received and checked.                     *)
THEOREM GatesAgreeTheorem == Spec => []GatesAgree
<1>1. IInv => GatesAgree
  BY GatesAgreeOnAll DEF IInv, GatesAgree
<1> QED
  BY IInvInit, IInvStep, <1>1, PTL DEF Spec
-----------------------------------------------------------------------------
(* The desired state is what the reducer made of an earlier client.         *)
WasReduced ==
  \E s \in Inventory : \E c \in SUBSET checked :
     Below(s, instances) /\ desired = reduce_desired_state(s, c)

ReducedInv == /\ IInv
              /\ IsFiniteSet(checked)
              /\ WasReduced

\* How a step may change the client and the orders.
Grows == /\ Below(instances, instances')
         /\ checked' = checked \/ \E l : checked' = checked \cup {l}
Ordered == \/ UNCHANGED desired
           \/ set_desired_state

LEMMA StepsGrow == IInv /\ [Next]_vars => Grows /\ Ordered
<1> SUFFICES ASSUME IInv, [Next]_vars PROVE Grows /\ Ordered
  OBVIOUS
<1>0. UNCHANGED instances => Below(instances, instances')
  BY DEF Below
<1>1. CASE set_desired_state
  BY <1>1, <1>0 DEF set_desired_state, client, Grows, Ordered
<1>2. CASE reconcile
  BY <1>2, <1>0 DEF reconcile, client, orders, Grows, Ordered
<1>3. ASSUME NEW i \in Items, Receive(i) PROVE Grows /\ Ordered
  <2>1. Below(instances, instances')
    BY <1>3 DEF Receive, Below, IInv, Inventory
  <2> QED BY <1>3, <2>1 DEF Receive, orders, Grows, Ordered
<1>4. ASSUME NEW c \in Cities, travel_to_city(c) PROVE Grows /\ Ordered
  BY <1>4, <1>0 DEF travel_to_city, Check, orders, Grows, Ordered
<1>5. ASSUME NEW e \in Events, select_event(e) \/ attempt_start_event(e)
      PROVE  Grows /\ Ordered
  BY <1>5, <1>0 DEF select_event, attempt_start_event, client, orders, Grows, Ordered
<1>6. CASE win_race
  BY <1>6, <1>0 DEF win_race, Check, orders, Grows, Ordered
<1>7. ASSUME NEW v \in Vehicles, NEW price \in Prices,
             purchase_vehicle(v, price)
      PROVE  Grows /\ Ordered
  BY <1>7, <1>0 DEF purchase_vehicle, Check, orders, Grows, Ordered
<1>8. ASSUME NEW l \in Logos, collect_logo(l) PROVE Grows /\ Ordered
  BY <1>8, <1>0 DEF collect_logo, Check, orders, Grows, Ordered
<1>9. ASSUME NEW a \in Abilities, activate_ability(a) PROVE Grows /\ Ordered
  BY <1>9, <1>0 DEF activate_ability, client, orders, Grows, Ordered
<1>10. CASE UNCHANGED vars
  BY <1>10, <1>0 DEF vars, client, orders, Grows, Ordered
<1> QED
  BY <1>1, <1>2, <1>3, <1>4, <1>5, <1>6, <1>7, <1>8, <1>9, <1>10
     DEF Next, Client, Player

LEMMA ReducedInvInit == Init => ReducedInv
<1> SUFFICES ASSUME Init PROVE ReducedInv
  OBVIOUS
<1> DEFINE s == [i \in Items |-> {}]
<1>1. IInv
  BY IInvInit
<1>2. instances = s /\ checked = {} /\ desired = reduce_desired_state(s, {})
  BY DEF Init, Nothing
<1>3. s \in Inventory /\ Below(s, instances)
  BY <1>1, <1>2 DEF IInv, Below
<1> HIDE DEF s
<1>4. {} \in SUBSET checked
  OBVIOUS
<1>5. WasReduced
  BY <1>2, <1>3, <1>4 DEF WasReduced
<1> QED BY <1>1, <1>2, <1>5, FS_EmptySet DEF ReducedInv

LEMMA ReducedInvStep == ReducedInv /\ [Next]_vars => ReducedInv'
<1> SUFFICES ASSUME ReducedInv, [Next]_vars PROVE ReducedInv'
  OBVIOUS
<1>1. IInv /\ IInv' /\ Grows /\ Ordered
  BY IInvStep, StepsGrow DEF ReducedInv
<1>2. IsFiniteSet(checked') /\ checked \subseteq checked'
  BY <1>1, FS_AddElement DEF ReducedInv, Grows
<1>3. WasReduced'
  <2>1. CASE UNCHANGED desired
    <3>1. PICK s \in Inventory : \E c \in SUBSET checked :
                  Below(s, instances) /\ desired = reduce_desired_state(s, c)
      BY DEF ReducedInv, WasReduced
    <3>2. PICK c \in SUBSET checked :
                  Below(s, instances) /\ desired = reduce_desired_state(s, c)
      BY <3>1
    <3>3. c \in SUBSET checked' /\ Below(s, instances')
      BY <1>1, <1>2, <3>2 DEF Grows, Below
    <3> QED BY <2>1, <3>2, <3>3 DEF WasReduced
  <2>2. CASE set_desired_state
    <3>1. /\ desired' = reduce_desired_state(instances, checked)
          /\ instances' = instances /\ checked' = checked
      BY <2>2 DEF set_desired_state, Reduced, client
    <3>2. instances \in Inventory /\ checked \in SUBSET checked /\ Below(instances, instances)
      BY <1>1 DEF IInv, Below
    <3> QED BY <3>1, <3>2 DEF WasReduced
  <2> QED BY <1>1, <2>1, <2>2 DEF Ordered
<1> QED BY <1>1, <1>2, <1>3 DEF ReducedInv

(* Of a client that only received and checked more, the reducer makes no    *)
(* less than the game was given before.                                     *)
LEMMA NoLessThanBefore == ReducedInv => NoLess(desired, Reduced)
<1> SUFFICES ASSUME ReducedInv PROVE NoLess(desired, Reduced)
  OBVIOUS
<1>1. PICK s \in Inventory : \E c \in SUBSET checked :
              Below(s, instances) /\ desired = reduce_desired_state(s, c)
  BY DEF ReducedInv, WasReduced
<1>2. PICK c \in SUBSET checked :
              Below(s, instances) /\ desired = reduce_desired_state(s, c)
  BY <1>1
<1>3. NoLess(reduce_desired_state(s, c), reduce_desired_state(instances, checked))
  BY <1>2, ReducerIsMonotonic DEF ReducedInv, IInv
<1> QED BY <1>2, <1>3 DEF Reduced

(* For every seed: no desired state takes a permit, a grant, money, a slot, *)
(* a tier or the goal away that the one before it gave.                     *)
THEOREM NothingTakenBackTheorem == Spec => NothingTakenBack
<1>1. ReducedInv /\ [Next]_vars => [NoLess(desired, desired')]_desired
  <2> SUFFICES ASSUME ReducedInv, [Next]_vars, desired' # desired
               PROVE  NoLess(desired, desired')
    OBVIOUS
  <2>1. desired' = Reduced
    BY StepsGrow DEF ReducedInv, Ordered, set_desired_state
  <2> QED BY <2>1, NoLessThanBefore
<1>2. [NoLess(desired, desired')]_desired
        => [ /\ \A k \in Kinds : desired.allowed[k] \subseteq desired'.allowed[k]
             /\ desired.granted \subseteq desired'.granted
             /\ desired.money <= desired'.money
             /\ desired.slots <= desired'.slots
             /\ desired.tiers \subseteq desired'.tiers
             /\ desired.goal => desired'.goal ]_desired
  BY DEF NoLess
<1> QED
  BY ReducedInvInit, ReducedInvStep, <1>1, <1>2, PTL DEF Spec, NothingTakenBack
-----------------------------------------------------------------------------
(* The limit the game was last told is one the client's items still allow.  *)
GarageInv ==
  /\ slots_used \in Nat /\ bought \in Nat /\ slot_limit \in Nat
  /\ IsFiniteSet(granted_instances)
  /\ slot_limit <= Slots(instances)
  /\ GarageIsExact

LEMMA GarageInvInit == Init => GarageInv
<1> SUFFICES ASSUME Init PROVE GarageInv
  OBVIOUS
<1>1. instances \in Inventory /\ Below(instances, instances)
  BY IInvInit DEF IInv, Below
<1>2. BaseSlots <= Slots(instances)
  BY <1>1, SlotsGrow
<1>3. IsFiniteSet({}) /\ Cardinality({}) = 0
  BY FS_EmptySet
<1> QED
  BY <1>2, <1>3, SlotsAssumption DEF Init, GarageInv, GarageIsExact

(* More items allow as many slots and grants as before.                     *)
LEMMA StillAllowed ==
  ASSUME IInv, IInv', Grows
  PROVE  /\ Granted(instances) \subseteq Granted(instances')
         /\ Slots(instances) \in Nat /\ Slots(instances') \in Nat
         /\ Slots(instances) <= Slots(instances')
BY GrantedGrows, SlotsGrow DEF IInv, Grows

(* A repair grants what still fits, and nothing a second time.              *)
LEMMA GarageInvReconcile ==
  ASSUME ReducedInv, GarageInv, reconcile
  PROVE  GarageInv'
<1>1. PICK grants \in Fit(Ungranted) :
         /\ granted_instances' = granted_instances \cup grants
         /\ slots_used' = slots_used + Cardinality(grants)
  BY DEF reconcile
<1>2. UNCHANGED <<instances, slot_limit, bought>>
  BY DEF reconcile, client
<1>3. instances \in Inventory
  BY DEF ReducedInv, IInv
<1>4. desired.granted \subseteq Granted(instances)
  <2>1. Reduced.granted = Granted(instances)
    BY DEF Reduced, reduce_desired_state
  <2> QED BY <2>1, NoLessThanBefore DEF NoLess
<1>5. Ungranted \in SUBSET Granted(instances) /\ IsFiniteSet(Ungranted)
  <2>1. Ungranted \in SUBSET Granted(instances)
    BY <1>4 DEF Ungranted
  <2> QED BY <1>3, <2>1, GrantedIsFinite, FS_Subset
<1> DEFINE n == Cardinality(Ungranted)
           k == Cardinality(grants)
           room == slot_limit - slots_used
           most == Max({room, 0})
<1>6. grants \in SUBSET Ungranted /\ k = Min({n, most})
  BY DEF Fit
<1>7. IsFiniteSet(grants) /\ k \in Nat /\ n \in Nat
  BY <1>5, <1>6, FS_Subset, FS_CardinalityType
<1>8. room \in Int /\ 0 <= room /\ slots_used + room = slot_limit
  BY DEF GarageInv, GarageIsExact
<1> HIDE DEF n, k, room
<1>9. most \in Int /\ most = room
  BY <1>8, MaxOfTwo
<1>10. k <= room
  BY <1>6, <1>7, <1>8, <1>9, MinOfTwo
<1>11. granted_instances \cap grants = {}
  BY <1>6 DEF Ungranted
<1>12. /\ IsFiniteSet(granted_instances')
       /\ Cardinality(granted_instances') = Cardinality(granted_instances) + k
  <2>1. IsFiniteSet(granted_instances)
    BY DEF GarageInv
  <2>2. Cardinality(granted_instances) \in Nat
    BY <2>1, FS_CardinalityType
  <2>3. /\ IsFiniteSet(granted_instances \cup grants)
        /\ Cardinality(granted_instances \cup grants)
             = Cardinality(granted_instances) + Cardinality(grants)
                 - Cardinality(granted_instances \cap grants)
    BY <1>7, <2>1, FS_Union
  <2>4. Cardinality(granted_instances \cap grants) = 0
    BY <1>11, FS_EmptySet
  <2> QED BY <1>1, <1>7, <2>2, <2>3, <2>4 DEF k
<1>13. /\ slots_used' \in Nat /\ slots_used' <= slot_limit'
       /\ slots_used' = bought' + Cardinality(granted_instances')
  <2>1. /\ slots_used \in Nat /\ bought \in Nat /\ slot_limit \in Nat
        /\ slots_used = bought + Cardinality(granted_instances)
    BY DEF GarageInv, GarageIsExact
  <2>2. Cardinality(granted_instances) \in Nat
    BY FS_CardinalityType DEF GarageInv
  <2>3. slots_used' = slots_used + k
    BY <1>1 DEF k
  <2> QED BY <1>2, <1>7, <1>8, <1>10, <1>12, <2>1, <2>2, <2>3
<1>14. granted_instances' \subseteq Granted(instances')
  BY <1>1, <1>2, <1>5, <1>6 DEF GarageInv, GarageIsExact
<1> QED
  BY <1>2, <1>12, <1>13, <1>14 DEF GarageInv, GarageIsExact

(* A new desired state moves the limit up, never down.                      *)
LEMMA GarageInvSetDesired ==
  ASSUME IInv, GarageInv, set_desired_state
  PROVE  GarageInv'
<1>1. /\ slot_limit' = Slots(instances)
      /\ UNCHANGED <<instances, granted_instances, slots_used, bought>>
  BY DEF set_desired_state, client, Reduced, reduce_desired_state
<1>2. Slots(instances) \in Nat
  BY SlotsGrow DEF IInv, Below
<1> QED BY <1>1, <1>2 DEF GarageInv, GarageIsExact

(* A purchase takes one slot of those that are free.                        *)
LEMMA GarageInvPurchase ==
  ASSUME GarageInv, NEW v, NEW price, purchase_vehicle(v, price)
  PROVE  GarageInv'
<1>1. /\ slots_used < slot_limit /\ slots_used' = slots_used + 1
      /\ bought' = bought + 1
      /\ UNCHANGED <<instances, granted_instances, slot_limit>>
  BY DEF purchase_vehicle, HasRoom
<1>2. Cardinality(granted_instances) \in Nat
  BY FS_CardinalityType DEF GarageInv
<1> QED BY <1>1, <1>2 DEF GarageInv, GarageIsExact

LEMMA GarageInvOther ==
  ASSUME IInv, IInv', GarageInv, Grows, UNCHANGED garage
  PROVE  GarageInv'
<1>1. UNCHANGED <<granted_instances, slots_used, slot_limit, bought>>
  BY DEF garage
<1> QED BY <1>1, StillAllowed DEF GarageInv, GarageIsExact

LEMMA GarageInvStep == ReducedInv /\ GarageInv /\ [Next]_vars => GarageInv'
<1> SUFFICES ASSUME ReducedInv, GarageInv, [Next]_vars PROVE GarageInv'
  OBVIOUS
<1>0. IInv /\ IInv' /\ Grows
  BY IInvStep, StepsGrow DEF ReducedInv
<1>1. CASE set_desired_state
  BY <1>0, <1>1, GarageInvSetDesired
<1>2. CASE reconcile
  BY <1>2, GarageInvReconcile
<1>3. ASSUME NEW v \in Vehicles, NEW price \in Prices,
             purchase_vehicle(v, price)
      PROVE  GarageInv'
  BY <1>3, GarageInvPurchase
<1>4. CASE UNCHANGED garage
  BY <1>0, <1>4, GarageInvOther
<1>5. ASSUME NEW i \in Items, Receive(i) PROVE UNCHANGED garage
  BY <1>5 DEF Receive
<1>6. ASSUME NEW c \in Cities, travel_to_city(c) PROVE UNCHANGED garage
  BY <1>6 DEF travel_to_city
<1>7. ASSUME NEW e \in Events, select_event(e) \/ attempt_start_event(e)
      PROVE  UNCHANGED garage
  BY <1>7 DEF select_event, attempt_start_event
<1>8. win_race \/ UNCHANGED vars => UNCHANGED garage
  BY DEF win_race, vars
<1>9. ASSUME NEW l \in Logos, collect_logo(l) PROVE UNCHANGED garage
  BY <1>9 DEF collect_logo
<1>10. ASSUME NEW a \in Abilities, activate_ability(a) PROVE UNCHANGED garage
  BY <1>10 DEF activate_ability
<1> QED
  BY <1>1, <1>2, <1>3, <1>4, <1>5, <1>6, <1>7, <1>8, <1>9, <1>10
     DEF Next, Client, Player

(* For every seed: each grant and each purchase fills one slot, once, and   *)
(* all of them fit, however the client and the player take turns.           *)
THEOREM GarageIsExactTheorem == Spec => []GarageIsExact
<1>1. GarageInv => GarageIsExact
  BY DEF GarageInv
<1> QED
  BY ReducedInvInit, ReducedInvStep, GarageInvInit, GarageInvStep, <1>1,
     PTL DEF Spec
=============================================================================
