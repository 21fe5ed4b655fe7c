-------------------------- MODULE MCBorrowedMemory --------------------------
EXTENDS BorrowedMemory

Rep(a, n) == [i \in 1..n |-> a]

MCInis ==
    {<<"EmuCore", "key", "cheats_off", "EmuCore_GS", "key">>,
     <<"EmuCore", "key", "EmuCore_GS", "cheats_off">>,
     <<"EmuCore_GS", "key">>}

\* The game, and an image of it behind it or before it.
MCLayouts ==
    {<<"other", "free">> \o Rep("ee", 8) \o <<"free">> \o Rep("image", 8),
     <<"other">> \o Rep("image", 8) \o <<"free">> \o Rep("ee", 8)}

MCUsualFiles(f) ==
    /\ f.complete /\ f.installs = 1 /\ f.boots = 1 /\ f.build = 9
    /\ ~f.had /\ Len(f.ini) = 5 /\ Last(f.ini) = "key"

MCSymmetry == Permutations(Tools)

MCPairs == {<<"code", "code">>, <<"data", "code">>}

MCPageOf == ("data" :> 0) @@ ("code" :> 4)
=============================================================================
