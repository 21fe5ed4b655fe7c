------------------------------- MODULE Gates --------------------------------
(***************************************************************************)
(* What the received items and the checked locations entitle the game to:  *)
(* the reducer (domain/reducer.py reduce_desired_state), the gate engine   *)
(* meant to agree with it (domain/gates.py) and the rule the generator's   *)
(* logic uses for a city gate (worlds/mc3/rules.py).                       *)
(*                                                                         *)
(* The arguments are those parts of a ClientState that count: instances is *)
(* item_instance_ids, the set of indices under which an item was received  *)
(* (empty for an item without an entry), checked the checked locations.    *)
(* What the reducer takes from the text of a name or of a description is a *)
(* constant here: the kind of gate, the price of a money pack, the vehicle *)
(* of a grant.  Of the kinds of things a gate opens, those that a runtime  *)
(* of the repository consults are kept.                                    *)
(***************************************************************************)
EXTENDS Integers, FiniteSetsExt, Functions

CONSTANTS
    ItemName,          \* item_table: item id -> name
    LocationName,      \* location_table: location id -> name
    GateTable,         \* set of gates, see GateType
    Goal,              \* goal_definition: [item, locations], names
    Price,             \* names of money packs -> dollars
    Grants,            \* names of vehicle grants -> vehicle
    SlotItem,          \* the name "Progressive Garage Slot"
    BaseSlots,         \* 30
    SlotCap,           \* 60
    LogoLocations,     \* location ids with logo_collected in their name
    Tiers,             \* names of collectible tiers -> logos needed
    TiersRandomized    \* options.collectible_reward_randomization

Names == Range(ItemName)
Kinds == {"city", "event", "vehicle", "ability", "part"}

\* required_items, required_any, required_counts, required_locations and
\* what the description says it opens.
GateType(g) ==
    /\ g.items \in SUBSET Names
    /\ g.any \in SUBSET SUBSET Names
    /\ DOMAIN g.counts \subseteq Names /\ IsFiniteSet(DOMAIN g.counts)
    /\ Range(g.counts) \subseteq Nat
    /\ g.kind \in Kinds

\* Archipelago's names of items and of locations are unique.
ASSUME NamesAssumption == IsInjective(ItemName) /\ IsInjective(LocationName)
ASSUME GatesAssumption == \A g \in GateTable : GateType(g)
ASSUME SlotsAssumption == BaseSlots \in Nat /\ SlotCap \in Nat
                          /\ BaseSlots <= SlotCap
\* A seed has finitely many items; what the reducer knows of money packs and
\* of tiers are two tables of numbers.
ASSUME TablesAssumption ==
    /\ IsFiniteSet(DOMAIN ItemName)
    /\ Price \in [DOMAIN Price -> Nat]
    /\ Tiers \in [DOMAIN Tiers -> Nat]
-----------------------------------------------------------------------------
Items == DOMAIN ItemName
IdOf(name) == CHOOSE i \in Items : ItemName[i] = name

owned_item_names(instances) ==
    {ItemName[i] : i \in {j \in Items : instances[j] # {}}}

\* item_counts.get(name, 0)
Count(instances, name) ==
    IF name \in Names THEN Cardinality(instances[IdOf(name)]) ELSE 0

Enough_Exactly(g, instances) ==            \* mutant: as many, no more
    \A n \in DOMAIN g.counts : Count(instances, n) = g.counts[n]
Enough(g, instances) ==
    \A n \in DOMAIN g.counts : Count(instances, n) >= g.counts[n]

AnyGroup(g, owned) == g.any = {} \/ \E group \in g.any : group \subseteq owned

\* _loc_id_from_name; no id for a name the table does not have.
LocationsOf(name) == {l \in DOMAIN LocationName : LocationName[l] = name}

\* _gate_passed: a location that is not in the table keeps the gate shut.
GatePassed(g, instances, checked) ==
    LET owned == owned_item_names(instances) IN
    /\ g.items \subseteq owned
    /\ AnyGroup(g, owned)
    /\ Enough(g, instances)
    /\ \A name \in g.locations :
          \E l \in LocationsOf(name) : l \in checked

\* goal_complete: locations that are not in the table do not count.
GoalComplete(instances, checked) ==
    \/ Goal.item \in owned_item_names(instances)
    \/ /\ Goal.locations # {}
       /\ \A name \in Goal.locations : LocationsOf(name) \subseteq checked

Opened(kind, instances, checked) ==
    {g.thing : g \in {h \in GateTable : h.kind = kind
                                        /\ GatePassed(h, instances, checked)}}

Granted(instances) ==
    UNION {{<<Grants[ItemName[i]], index>> : index \in instances[i]} :
              i \in {j \in Items : ItemName[j] \in DOMAIN Grants}}

Money(instances) ==
    SumFunction([n \in Names \cap DOMAIN Price |->
                    Price[n] * Count(instances, n)])

Slots(instances) ==
    Min({BaseSlots + Count(instances, SlotItem), SlotCap})

TiersReached(instances, checked) ==
    {t \in DOMAIN Tiers :
        /\ Cardinality(checked \cap LogoLocations) >= Tiers[t]
        /\ t \in owned_item_names(instances) \/ ~TiersRandomized}

reduce_desired_state(instances, checked) ==
    [allowed |-> [k \in Kinds |-> Opened(k, instances, checked)],
     granted |-> Granted(instances),
     money |-> Money(instances),
     slots |-> Slots(instances),
     tiers |-> TiersReached(instances, checked),
     goal |-> GoalComplete(instances, checked),
     checked |-> checked]
-----------------------------------------------------------------------------
\* gates.py: what keeps the gate shut, by the names of the checked locations.
missing(g, owned, instances, checkedNames) ==
    {<<"item", n>> : n \in g.items \ owned}
    \cup (IF g.any # {} /\ \A group \in g.any : group \ owned # {}
          THEN {<<"any", g.any>>} ELSE {})
    \cup {<<"count", n>> : n \in {m \in DOMAIN g.counts :
                                     Count(instances, m) < g.counts[m]}}
    \cup {<<"loc", n>> : n \in g.locations \ checkedNames}

evaluate_gate(g, owned, instances, checkedNames) ==
    missing(g, owned, instances, checkedNames) = {}

\* rules.py: counts and locations are no part of the generator's rule.
rule(g, owned) ==
    /\ g.items \subseteq owned
    /\ g.any # {} => \E group \in g.any : group \subseteq owned
=============================================================================
