---------------------------- MODULE ItemDelivery ----------------------------
(***************************************************************************)
(* What item reception promises (the rules at the head of ap_protocol.py): *)
(* a client process holds the beginning of the sequence of items the       *)
(* multiworld sent to its slot, learns more of it and forgets none of it   *)
(* until the process ends.  Runner implements this.                        *)
(***************************************************************************)
EXTENDS Naturals, Sequences

CONSTANT Items

VARIABLES log, inventory, up

vars == <<log, inventory, up>>

Init == log = <<>> /\ inventory = <<>> /\ up = FALSE

Grant(i) ==
    /\ log' = Append(log, i)
    /\ UNCHANGED <<inventory, up>>

Begin ==
    /\ ~up
    /\ up' = TRUE
    /\ UNCHANGED <<log, inventory>>

Learn ==
    /\ up
    /\ \E n \in Len(inventory)..Len(log) : inventory' = SubSeq(log, 1, n)
    /\ UNCHANGED <<log, up>>

End ==
    /\ up
    /\ up' = FALSE
    /\ inventory' = <<>>
    /\ UNCHANGED log

Next == (\E i \in Items : Grant(i)) \/ Begin \/ Learn \/ End

Spec == Init /\ [][Next]_vars
=============================================================================
