----------------------------- MODULE MCFakeGame -----------------------------
(* A small seed: a gate of each form, a goal, a grant, a slot, a money pack. *)
EXTENDS FakeGame, TLC

MCItemName ==
    [i1 |-> "City Permit: Atlanta", i2 |-> "Vehicle Permit: tc",
     i3 |-> "Vehicle Grant: is300", i4 |-> "Progressive Garage Slot",
     i5 |-> "Money Pack: $500"]

MCLocationName ==
    (<<"race_win", "kou">> :> "Race Win: kou") @@
    (<<"logo_collected", "logo">> :> "Logo_Collected: 1")

Gate(kind, thing, items, any, counts, locations) ==
    [kind |-> kind, thing |-> thing, items |-> items, any |-> any,
     counts |-> counts, locations |-> locations]

None == [n \in {} |-> 0]

MCGateTable ==
    {Gate("city", "atlanta", {"City Permit: Atlanta"}, {}, None, {}),
     Gate("city", "san_diego", {}, {}, None, {"Race Win: kou"}),
     Gate("vehicle", "tc", {"Vehicle Permit: tc"}, {}, None, {}),
     Gate("vehicle", "is300", {}, {{"Vehicle Grant: is300"},
              {"City Permit: Atlanta", "Vehicle Permit: tc"}}, None, {}),
     Gate("ability", "zone", {}, {},
          "Progressive Garage Slot" :> 2, {}),
     Gate("part", "turbo", {}, {}, None, {"Logo_Collected: 1"}),
     Gate("part", "nitrous", {}, {}, "Progressive Garage Slot" :> 1, {}),
     Gate("event", "kou", {}, {}, None, {"Race Win: unknown"})}

MCGoal == [item |-> "", locations |-> {"Race Win: kou", "Logo_Collected: 1"}]
MCPrice == "Money Pack: $500" :> 500
MCGrants == "Vehicle Grant: is300" :> "is300"
MCLogoLocations == {<<"logo_collected", "logo">>}
MCTiers == "12_logos" :> 1
=============================================================================
