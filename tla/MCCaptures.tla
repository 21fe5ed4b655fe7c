----------------------------- MODULE MCCaptures -----------------------------
EXTENDS Captures

MCPrefix == [n \in Names |-> IF n = "locked-1" THEN "locked" ELSE "unlocked"]

\* Everything; all but the last word, in two ranges.
MCRanges == {<<<<0, 6>>>>, <<<<0, 2>>, <<2, 5>>>>}

MCGarageSlots == <<3, 4>>

\* A vehicle is bought and moves to another slot, and another one is bought.
MCMaxWrites == [capture |-> 2, snapshot |-> 2, dump |-> 2, monitor |-> 4,
                listener |-> 3]

\* Every name is captured; a series is broken off, and the next one too.
MCMaxRuns == [capture |-> 3, snapshot |-> 3, dump |-> 3, monitor |-> 2,
              listener |-> 2]

MCHeard == <<1, 2, 3, 4>>
MCFree == [capture |-> {1, 3, 4}, snapshot |-> {3, 4}, dump |-> {1, 3, 4}, monitor |-> {3, 4},
           listener |-> 1..4]

MCRegions == <<<<"profile_ptr_area", 0, 1>>, <<"profile_data", 0, 1>>,
               <<"vehicle_list", 4, 2>>>>
=============================================================================
