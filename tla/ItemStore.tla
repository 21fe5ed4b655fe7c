------------------------------ MODULE ItemStore ------------------------------
(***************************************************************************)
(* The items the client remembers: ClientState and its operations          *)
(* (domain/reducer.py), changed by APEventService.handle_received_items    *)
(* (application/ap_event_service.py) and reloaded from the received_items  *)
(* table (adapters/storage/sqlite_event_store.py) after a restart.         *)
(*                                                                         *)
(* The caller of handle_received_items is external: it hands over its      *)
(* ClientState, keeps the one returned, and passes packets on as they are. *)
(* The service tests no index, so a packet may be any stretch of the       *)
(* server's log, one repeated or one after a lost one included.            *)
(***************************************************************************)
EXTENDS Naturals, Sequences, FiniteSets, Functions

CONSTANTS
    Items,       \* item ids; each has a name of its own
    Price,       \* reduce_desired_state's money for an item's name, or 0
    Locations,
    MaxGrants,   \* bound: items the multiworld ever sends to this slot
    MaxStarts    \* bound: times the client is started

ASSUME ItemsAssumption == IsFiniteSet(Items)
ASSUME PriceAssumption == Price \in [Items -> Nat]
ASSUME BoundsAssumption == MaxGrants \in Nat /\ MaxStarts \in Nat

VARIABLES
    log,         \* server: every item sent to this slot, in order
    rows,        \* received_items: item_id by ap_index
    checks,      \* location_checks: the locations recorded
    pc, starts,  \* the client
    state,       \* the caller's ClientState
    local,       \* the ClientState handle_received_items is building
    index, todo  \* its loop: the next ap_index and the items left

call == <<local, index, todo>>
vars == <<log, rows, checks, pc, starts, state, call>>
-----------------------------------------------------------------------------
(* ClientState and its operations.  The goal flag and the money applied are *)
(* set by nobody.                                                           *)
EmptyTable == [k \in {} |-> CHOOSE i \in Items : TRUE]
With_Only(table, k, i) ==              \* mutant: the old table is not copied
    [j \in {k} |-> i]
With(table, k, i) == [j \in DOMAIN table \cup {k} |->
                         IF j = k THEN i ELSE table[j]]

Instances_Last(table) ==               \* mutant: keeps one index of an item
    [i \in Items |-> {k \in DOMAIN table : table[k] = i /\
                        \A j \in DOMAIN table : table[j] = i => j <= k}]
Instances(table) == [i \in Items |-> {k \in DOMAIN table : table[k] = i}]

ClientState(table, locations) ==
    [received_items |-> table, item_instance_ids |-> Instances(table),
     checked_locations |-> locations]

apply_received_item(s, ap_index, item_id) ==
    [s EXCEPT !.received_items = With(@, ap_index, item_id),
              !.item_instance_ids[item_id] = @ \cup {ap_index}]

apply_location_checked(s, l) == [s EXCEPT !.checked_locations = @ \cup {l}]

apply_full_inventory_reset(table) == ClientState(table, {})

\* reduce_desired_state: the money of the packs owned, by their counts.
Money(s) == SumFunction([i \in Items |->
                            Price[i] * Cardinality(s.item_instance_ids[i])])
-----------------------------------------------------------------------------
Indices == 0..(MaxGrants - 1)
IsTable(f) == DOMAIN f \subseteq Indices /\ \A k \in DOMAIN f : f[k] \in Items
IsState(s) ==
    /\ IsTable(s.received_items)
    /\ s.item_instance_ids \in [Items -> SUBSET Indices]
    /\ s.checked_locations \in SUBSET Locations

TypeOK ==
    /\ log \in Seq(Items) /\ Len(log) <= MaxGrants
    /\ IsTable(rows)
    /\ checks \in SUBSET Locations
    /\ pc \in {"down", "ready", "append"}
    /\ starts \in 0..MaxStarts
    /\ IsState(state) /\ IsState(local)
    /\ index \in 0..MaxGrants
    /\ todo \in Seq(Items)

Blank == ClientState(EmptyTable, {})

Init ==
    /\ log = <<>> /\ rows = EmptyTable /\ checks = {}
    /\ pc = "down" /\ starts = 0
    /\ state = Blank /\ local = Blank /\ index = 0 /\ todo = <<>>
-----------------------------------------------------------------------------
Grant(i) ==
    /\ Len(log) < MaxGrants
    /\ log' = Append(log, i)
    /\ UNCHANGED <<rows, checks, pc, starts, state, call>>

\* load_client_state
Start ==
    /\ pc = "down"
    /\ starts < MaxStarts
    /\ starts' = starts + 1
    /\ state' = ClientState(rows, checks)
    /\ pc' = "ready"
    /\ UNCHANGED <<log, rows, checks, call>>

\* The client ends at any await; what it was building is gone.
Stop ==
    /\ pc # "down"
    /\ pc' = "down"
    /\ state' = Blank /\ local' = Blank /\ index' = 0 /\ todo' = <<>>
    /\ UNCHANGED <<log, rows, checks, starts>>

Inventory == [k \in 0..(Len(log) - 1) |-> log[k + 1]]

\* index 0: the state is built anew from the packet, and nothing is stored.
ReceiveInventory ==
    /\ pc = "ready"
    /\ log # <<>>
    /\ state' = apply_full_inventory_reset(Inventory)
    /\ UNCHANGED <<log, rows, checks, pc, starts, call>>

\* Any other index: the items are appended one by one.
ReceiveItems(from, upto) ==
    /\ pc = "ready"
    /\ local' = state
    /\ index' = from
    /\ todo' = SubSeq(log, from + 1, upto)
    /\ pc' = "append"
    /\ UNCHANGED <<log, rows, checks, starts, state>>

NextIndex_Stays == index               \* mutant: index += 1 is forgotten
NextIndex == index + 1

\* One turn of the loop, up to the commit of record_received_item.
AppendItem ==
    LET item == Head(todo) IN
    /\ pc = "append"
    /\ todo # <<>>
    /\ local' = apply_received_item(local, index, item)
    /\ rows' = With(rows, index, item)
    /\ index' = NextIndex
    /\ todo' = Tail(todo)
    /\ UNCHANGED <<log, checks, pc, starts, state>>

Returned == local

\* save_client_state does nothing; the caller keeps what is returned.
ReturnState ==
    /\ pc = "append"
    /\ todo = <<>>
    /\ state' = Returned
    /\ pc' = "ready"
    /\ UNCHANGED <<log, rows, checks, starts, call>>

\* A check between two packets (module CheckStore has its steps).
CheckLocation(l) ==
    /\ pc = "ready"
    /\ l \notin state.checked_locations
    /\ state' = apply_location_checked(state, l)
    /\ checks' = checks \cup {l}
    /\ UNCHANGED <<log, rows, pc, starts, call>>
-----------------------------------------------------------------------------
Receive ==
    \/ ReceiveInventory
    \/ \E from \in 1..Len(log) : \E upto \in (from + 1)..Len(log) :
          ReceiveItems(from, upto)
    \/ AppendItem \/ ReturnState

Next ==
    \/ Start \/ Stop \/ Receive
    \/ \E i \in Items : Grant(i)
    \/ \E l \in Locations : CheckLocation(l)

Spec == Init /\ [][Next]_vars
-----------------------------------------------------------------------------
(* Whatever was repeated, lost, reloaded or replaced, an item the client    *)
(* has at an index, in memory or in the table, is the server's item there;  *)
(* and between two packets the table, which a restart will load, has none   *)
(* that the running client does not know.                                  *)
AtItsIndex(table) ==
    \A k \in DOMAIN table : k < Len(log) /\ table[k] = log[k + 1]
ItemsAtTheirIndex ==
    /\ AtItsIndex(rows)
    /\ AtItsIndex(state.received_items)
    /\ AtItsIndex(local.received_items)
    /\ pc = "ready" => DOMAIN rows \subseteq DOMAIN state.received_items

(* "replay does not double money", "same index does not duplicate": the two *)
(* views a ClientState keeps of its items agree, so that the money it is    *)
(* worth is that of the server's items it has, each counted once.           *)
MoneyCountsEachItemOnce ==
    \A s \in {state, local} :
       /\ \A i \in Items : \A k \in Indices :
             k \in s.item_instance_ids[i] <=>
                k \in DOMAIN s.received_items /\ s.received_items[k] = i
       /\ Money(s) = SumFunction([k \in DOMAIN s.received_items |->
                                     Price[log[k + 1]]])

(* "receiving items never removes unlocks": while the client runs, no       *)
(* packet, a full inventory included, takes an item from it.                *)
ItemsNeverTakenBack ==
    [][pc' # "down" =>
          DOMAIN state.received_items \subseteq
             DOMAIN state'.received_items]_vars
=============================================================================
