------------------------------ MODULE FakeGame ------------------------------
(***************************************************************************)
(* The fake game of the validation scenarios (adapters/fake/               *)
(* fake_game_runtime.py) driven by the reducer: the client's items and     *)
(* checks grow, now and then the game is given the desired state they      *)
(* reduce to and repaired, and the player acts at any time in between.     *)
(* The checks the game emits go into the ClientState, as the hook          *)
(* on_location_checked is for.                                             *)
(*                                                                         *)
(* A location id is the pair of its prefix and the thing it is about.      *)
(* Events that are not checks are left out, nobody reads them.             *)
(***************************************************************************)
EXTENDS Gates

CONSTANTS
    Cities, StartCity,   \* current_city starts as san_diego
    Events, Vehicles, Logos, Abilities, Parts,
    Prices,              \* what a vehicle may cost
    MaxItems,            \* bound: items received
    MaxSpending          \* bound: races won and vehicles bought

ASSUME BoundsAssumption == MaxItems \in Nat /\ MaxSpending \in Nat
ASSUME WorldAssumption == StartCity \in Cities /\ Prices \subseteq Nat

VARIABLES
    instances, received, checked,       \* ClientState; items received
    given, desired,                     \* has the game one; desired
    city, event,                        \* current_city, current_event
    owned_vehicles, granted_instances,  \* the garage
    slots_used, slot_limit,
    equipped_parts, money, collected_logos, active_abilities,
    travelled, bought, won              \* history: last travel; counts

client == <<instances, received, checked>>
orders == <<given, desired>>
place == <<city, event, travelled>>
garage == <<owned_vehicles, granted_instances, slots_used, slot_limit, bought>>
body == <<equipped_parts, collected_logos, active_abilities>>
wallet == <<money, won>>
vars == <<client, orders, place, garage, body, wallet>>
-----------------------------------------------------------------------------
Reduced == reduce_desired_state(instances, checked)
Nothing == reduce_desired_state([i \in Items |-> {}], {})

Locations ==
    {<<"city_unlocked", c>> : c \in Cities} \cup
    {<<"race_win", e>> : e \in Events} \cup
    {<<"vehicle_purchased", v>> : v \in Vehicles} \cup
    {<<"logo_collected", l>> : l \in Logos}

TypeOK ==
    /\ instances \in [Items -> SUBSET (0..(MaxItems - 1))]
    /\ received \in 0..MaxItems
    /\ checked \in SUBSET Locations
    /\ given \in BOOLEAN
    /\ desired.allowed["city"] \subseteq Cities
    /\ desired.checked \subseteq checked
    /\ city \in Cities /\ event \in Events \cup {"none"}
    /\ owned_vehicles \in SUBSET Vehicles
    /\ granted_instances \in SUBSET (Vehicles \X (0..(MaxItems - 1)))
    /\ slots_used \in Nat /\ slot_limit \in BaseSlots..SlotCap
    /\ equipped_parts \in SUBSET Parts
    /\ money \in Int
    /\ collected_logos \in SUBSET Logos
    /\ active_abilities \in SUBSET Abilities
    /\ travelled \in {"no", "free", "gated"}
    /\ bought \in 0..MaxSpending /\ won \in 0..MaxSpending

Init ==
    /\ instances = [i \in Items |-> {}] /\ received = 0 /\ checked = {}
    /\ given = FALSE /\ desired = Nothing
    /\ city = StartCity /\ event = "none"
    /\ owned_vehicles = {} /\ granted_instances = {}
    /\ slots_used = 0 /\ slot_limit = BaseSlots
    /\ equipped_parts \in SUBSET Parts
    /\ money = 0 /\ collected_logos = {} /\ active_abilities = {}
    /\ travelled = "no" /\ bought = 0 /\ won = 0
-----------------------------------------------------------------------------
(* The client.                                                             *)

\* apply_received_item
Receive(i) ==
    /\ received < MaxItems
    /\ instances' = [instances EXCEPT ![i] = @ \cup {received}]
    /\ received' = received + 1
    /\ UNCHANGED <<checked, orders, place, garage, body, wallet>>

set_desired_state ==
    /\ given' = TRUE
    /\ desired' = Reduced
    /\ slot_limit' = desired'.slots
    /\ UNCHANGED <<client, place, owned_vehicles, granted_instances,
                   slots_used, bought, body, wallet>>

Ungranted == desired.granted \ granted_instances

\* As many grants as the garage has room for, in a set's order.
Fit(set) == {s \in SUBSET set :
               Cardinality(s) = Min({Cardinality(set),
                                     Max({slot_limit - slots_used, 0})})}

Repaired == IF desired.allowed["part"] = {} THEN equipped_parts
            ELSE equipped_parts \cap desired.allowed["part"]

reconcile ==
    /\ given
    /\ money' = desired.money
    /\ \E grants \in Fit(Ungranted) :
          /\ granted_instances' = granted_instances \cup grants
          /\ owned_vehicles' = owned_vehicles \cup {g[1] : g \in grants}
          /\ slots_used' = slots_used + Cardinality(grants)
    /\ equipped_parts' = Repaired
    /\ UNCHANGED <<client, orders, place, slot_limit, bought,
                   collected_logos, active_abilities, won>>
-----------------------------------------------------------------------------
(* The player.  A city is closed unless allowed; for everything else an    *)
(* empty set allows all.                                                   *)

Check(location) == checked' = checked \cup {location}

MayVisit_Empty(c) ==                   \* mutant: as for everything else
    (given /\ desired.allowed["city"] # {}) => c \in desired.allowed["city"]
MayVisit(c) == given => c \in desired.allowed["city"]

May(kind, x) ==
    given => x \in desired.allowed[kind] \/ desired.allowed[kind] = {}

travel_to_city(c) ==
    /\ MayVisit(c)
    /\ city' = c
    /\ IF c # "san_diego" THEN Check(<<"city_unlocked", c>>)
                          ELSE UNCHANGED checked
    /\ travelled' = IF given THEN "gated" ELSE "free"
    /\ UNCHANGED <<instances, received, orders, event, garage, body, wallet>>

\* attempt_start_event only differs from it by its gate.
select_event(e) ==
    /\ event' = e
    /\ UNCHANGED <<client, orders, city, travelled, garage, body, wallet>>

attempt_start_event(e) == May("event", e) /\ select_event(e)

\* A lost race changes nothing.
win_race ==
    /\ event # "none"
    /\ won < MaxSpending
    /\ won' = won + 1
    /\ Check(<<"race_win", event>>)
    /\ money' = money + 1000
    /\ UNCHANGED <<instances, received, orders, place, garage, body>>

HasRoom_One == slots_used <= slot_limit  \* mutant: off by one
HasRoom == slots_used < slot_limit

\* Nothing asks whether the player has the money.
purchase_vehicle(v, price) ==
    /\ May("vehicle", v)
    /\ HasRoom
    /\ bought < MaxSpending
    /\ bought' = bought + 1
    /\ money' = money - price
    /\ owned_vehicles' = owned_vehicles \cup {v}
    /\ slots_used' = slots_used + 1
    /\ Check(<<"vehicle_purchased", v>>)
    /\ UNCHANGED <<instances, received, orders, place, granted_instances,
                   slot_limit, body, won>>

collect_logo(l) ==
    /\ l \notin collected_logos
    /\ collected_logos' = collected_logos \cup {l}
    /\ Check(<<"logo_collected", l>>)
    /\ UNCHANGED <<instances, received, orders, place, garage,
                   equipped_parts, active_abilities, wallet>>

activate_ability(a) ==
    /\ May("ability", a)
    /\ active_abilities' = active_abilities \cup {a}
    /\ UNCHANGED <<client, orders, place, garage, equipped_parts,
                   collected_logos, wallet>>
-----------------------------------------------------------------------------
Client == set_desired_state \/ reconcile \/ \E i \in Items : Receive(i)
Player ==
    \/ \E c \in Cities : travel_to_city(c)
    \/ \E e \in Events : select_event(e) \/ attempt_start_event(e)
    \/ win_race
    \/ \E v \in Vehicles, price \in Prices : purchase_vehicle(v, price)
    \/ \E l \in Logos : collect_logo(l)
    \/ \E a \in Abilities : activate_ability(a)

Next == Client \/ Player

Spec == Init /\ [][Next]_vars
-----------------------------------------------------------------------------
\* reconciliation_service.py: what it finds wrong with the game.  The fake
\* game never has a current vehicle.
Violations ==
    LET allowed == desired.allowed IN
    {k \in {"city", "money", "part", "ability"} :
        \/ k = "city" /\ allowed["city"] # {} /\ city \notin allowed["city"]
        \/ k = "money" /\ money < desired.money
        \/ k = "part" /\ allowed["part"] # {}
                      /\ ~(equipped_parts \subseteq allowed["part"])
        \/ k = "ability" /\ allowed["ability"] # {}
                         /\ ~(active_abilities \subseteq allowed["ability"])}

(* "Both implement the same boolean algebra": the reducer opens a gate iff  *)
(* the gate engine does, and the generator's rule never asks for more.      *)
GatesAgree ==
    LET owned == owned_item_names(instances)
        names == {LocationName[l] : l \in checked \cap DOMAIN LocationName}
    IN \A g \in GateTable :
          /\ GatePassed(g, instances, checked)
                <=> evaluate_gate(g, owned, instances, names)
          /\ GatePassed(g, instances, checked) => rule(g, owned)

(* "receiving items never removes unlocks": whatever was received and       *)
(* checked in between, a desired state takes no permit, grant, money, slot, *)
(* tier or goal of the one before it away (reduce_desired_state).           *)
NothingTakenBack ==
    [][ /\ \A k \in Kinds : desired.allowed[k] \subseteq desired'.allowed[k]
        /\ desired.granted \subseteq desired'.granted
        /\ desired.money <= desired'.money
        /\ desired.slots <= desired'.slots
        /\ desired.tiers \subseteq desired'.tiers
        /\ desired.goal => desired'.goal ]_desired

(* Each received grant fills one slot once, whether it waited for room or   *)
(* not, each purchase one more, and they never are more than the limit,     *)
(* which the client moves (reconcile, purchase_vehicle).                    *)
GarageIsExact ==
    /\ slots_used = bought + Cardinality(granted_instances)
    /\ granted_instances \subseteq Granted(instances)
    /\ slots_used <= slot_limit

(* A city the gate let the player into stays legal under every later        *)
(* desired state: the reconciliation check never finds the player there.    *)
TravelStaysLegal == travelled = "gated" => "city" \notin Violations

=============================================================================
