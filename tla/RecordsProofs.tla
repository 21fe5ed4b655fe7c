---------------------------- MODULE RecordsProofs ----------------------------
(***************************************************************************)
(* What is written down can be relied on.  ItemStore for any items, any    *)
(* number of grants and any number of starts: memory and table hold the    *)
(* server's items at their indices, whatever stretches of the log were     *)
(* passed on, and nothing is taken back.  Captures for any memory, any     *)
(* number of programs and any writes of the game between two of their      *)
(* reads: what the files show of the memory is so.                         *)
(***************************************************************************)
EXTENDS ItemStore, Captures, Arithmetic, FiniteSetTheorems, SequenceTheorems, TLAPS

Fields == {"received_items", "item_instance_ids", "checked_locations"}

Types ==
    /\ log \in Seq(Items)
    /\ DOMAIN state = Fields /\ DOMAIN local = Fields

\* A table that a client of this log may have.
Right(table) == DOMAIN table \subseteq Nat /\ AtItsIndex(table)
AllRight == Right(rows) /\ Right(state.received_items) /\ Right(local.received_items)

\* What the loop has left to append comes next in the log.
LoopReadsLog == pc = "append" =>
    /\ index \in Nat /\ todo \in Seq(Items)
    /\ \A j \in 1..Len(todo) : index + j <= Len(log) /\ todo[j] = log[index + j]

\* The state being built has all that the table and the caller's state have.
NothingForgotten ==
    /\ pc = "down" => DOMAIN state.received_items = {}
    /\ pc = "ready" => DOMAIN rows \subseteq DOMAIN state.received_items
    /\ pc = "append" =>
          /\ DOMAIN rows \subseteq DOMAIN local.received_items
          /\ DOMAIN state.received_items \subseteq DOMAIN local.received_items

IInv == Types /\ AllRight /\ LoopReadsLog /\ NothingForgotten
-----------------------------------------------------------------------------
LEMMA BlankState ==
    /\ DOMAIN Blank = Fields
    /\ DOMAIN Blank.received_items = {}
    /\ Right(Blank.received_items) /\ Right(EmptyTable)
BY DEF Blank, ClientState, EmptyTable, Fields, Right, AtItsIndex

(* Setting the log's item at its index leaves a table right.               *)
LEMMA WithRight ==
    ASSUME NEW table, Right(table), NEW k \in Nat, NEW i, k < Len(log), i = log[k + 1]
    PROVE  /\ Right(With(table, k, i))
           /\ DOMAIN With(table, k, i) = DOMAIN table \cup {k}
BY DEF Right, AtItsIndex, With

LEMMA IInvInit == Init => IInv
<1> SUFFICES ASSUME Init PROVE IInv
  OBVIOUS
<1>1. rows = EmptyTable /\ state = Blank /\ local = Blank /\ log = <<>> /\ pc = "down"
  BY DEF Init
<1> QED
  BY <1>1, BlankState DEF IInv, Types, AllRight, LoopReadsLog, NothingForgotten

(* The log only grows: what was right stays right.                         *)
LEMMA GrantStep == ASSUME IInv, NEW i \in Items, Grant(i) PROVE IInv'
<1>1. /\ log' = Append(log, i)
      /\ UNCHANGED <<rows, pc, state, local, index, todo>>
  BY DEF Grant, call
<1>2. /\ log' \in Seq(Items) /\ Len(log) <= Len(log') /\ Len(log) \in Nat
      /\ \A j \in 1..Len(log) : log'[j] = log[j]
  BY <1>1 DEF IInv, Types
<1>3. AllRight'
  BY <1>1, <1>2 DEF IInv, AllRight, Right, AtItsIndex
<1>4. LoopReadsLog'
  BY <1>1, <1>2 DEF IInv, LoopReadsLog
<1> QED
  BY <1>1, <1>2, <1>3, <1>4 DEF IInv, Types, NothingForgotten

(* One turn of the loop sets one item, in the table and in the new state.  *)
LEMMA AppendStep == IInv /\ AppendItem => IInv'
<1> SUFFICES ASSUME IInv, AppendItem PROVE IInv'
  OBVIOUS
<1>1. /\ pc = "append" /\ todo # <<>>
      /\ rows' = With(rows, index, Head(todo))
      /\ local' = apply_received_item(local, index, Head(todo))
      /\ index' = index + 1 /\ todo' = Tail(todo)
      /\ UNCHANGED <<log, pc, state>>
  BY DEF AppendItem, NextIndex
<1>2. /\ index \in Nat /\ todo \in Seq(Items) /\ Len(todo) >= 1
      /\ \A j \in 1..Len(todo) : index + j <= Len(log) /\ todo[j] = log[index + j]
  BY <1>1 DEF IInv, LoopReadsLog
<1>3. index < Len(log) /\ Head(todo) = log[index + 1]
  BY <1>1, <1>2 DEF IInv, Types
<1>4. /\ DOMAIN local' = Fields
      /\ local'.received_items = With(local.received_items, index, Head(todo))
  BY <1>1 DEF apply_received_item, IInv, Types, Fields
<1>5. /\ Right(rows)' /\ Right(local.received_items)'
      /\ DOMAIN rows' = DOMAIN rows \cup {index}
      /\ DOMAIN local'.received_items = DOMAIN local.received_items \cup {index}
  <2>1. /\ Right(rows') /\ Right(local'.received_items)
        /\ DOMAIN rows' = DOMAIN rows \cup {index}
        /\ DOMAIN local'.received_items = DOMAIN local.received_items \cup {index}
    <3>1. Right(rows) /\ Right(local.received_items)
      BY DEF IInv, AllRight
    <3>2. ASSUME NEW table, Right(table)
          PROVE  /\ Right(With(table, index, Head(todo)))
                 /\ DOMAIN With(table, index, Head(todo)) = DOMAIN table \cup {index}
      BY <1>2, <1>3, <3>2, WithRight
    <3> QED
      BY <1>1, <1>4, <3>1, <3>2
  <2> QED
    BY <1>1, <2>1 DEF Right, AtItsIndex
<1>6. AllRight'
  BY <1>1, <1>5 DEF IInv, AllRight, Right, AtItsIndex
<1>7. LoopReadsLog'
  <2>1. /\ Tail(todo) \in Seq(Items) /\ Len(Tail(todo)) = Len(todo) - 1
        /\ \A j \in 1..Len(Tail(todo)) : Tail(todo)[j] = todo[j + 1]
    BY <1>1, <1>2, HeadTailProperties
  <2> QED
    BY <1>1, <1>2, <2>1 DEF LoopReadsLog
<1> QED
  BY <1>1, <1>4, <1>5, <1>6, <1>7 DEF IInv, Types, NothingForgotten

LEMMA IInvStep == IInv /\ [Next]_vars => IInv'
<1> SUFFICES ASSUME IInv, [Next]_vars PROVE IInv'
  OBVIOUS
<1>1. CASE Start
  <2>1. /\ state' = ClientState(rows, checks) /\ pc' = "ready"
        /\ UNCHANGED <<log, rows, local>>
    BY <1>1 DEF Start, call
  <2>2. DOMAIN state' = Fields /\ state'.received_items = rows
    BY <2>1 DEF ClientState, Fields
  <2> QED
    BY <2>1, <2>2 DEF IInv, Types, AllRight, Right, AtItsIndex, LoopReadsLog,
                      NothingForgotten
<1>2. CASE Stop
  <2>1. /\ state' = Blank /\ local' = Blank /\ pc' = "down"
        /\ UNCHANGED <<log, rows>>
    BY <1>2 DEF Stop
  <2> QED
    BY <2>1, BlankState DEF IInv, Types, AllRight, Right, AtItsIndex,
                            LoopReadsLog, NothingForgotten
<1>3. CASE ReceiveInventory
  <2>1. /\ state' = apply_full_inventory_reset(Inventory)
        /\ pc = "ready" /\ UNCHANGED <<log, rows, pc, local, index, todo>>
    BY <1>3 DEF ReceiveInventory, call
  <2>2. DOMAIN state' = Fields /\ state'.received_items = Inventory
    BY <2>1 DEF apply_full_inventory_reset, ClientState, Fields
  <2>3. /\ DOMAIN Inventory = 0..(Len(log) - 1) /\ Len(log) \in Nat
        /\ Right(Inventory)
    BY DEF Inventory, Right, AtItsIndex, IInv, Types
  <2>4. DOMAIN rows \subseteq DOMAIN Inventory
    BY <2>3 DEF IInv, AllRight, Right, AtItsIndex
  <2>5. Right(state.received_items)'
    BY <2>1, <2>2, <2>3 DEF Right, AtItsIndex
  <2> QED
    BY <2>1, <2>2, <2>4, <2>5 DEF IInv, Types, AllRight, Right, AtItsIndex,
                                  LoopReadsLog, NothingForgotten
<1>4. ASSUME NEW from \in 1..Len(log), NEW upto \in (from + 1)..Len(log),
             ReceiveItems(from, upto)
      PROVE  IInv'
  <2>1. /\ local' = state /\ index' = from /\ pc' = "append" /\ pc = "ready"
        /\ todo' = SubSeq(log, from + 1, upto)
        /\ UNCHANGED <<log, rows, state>>
    BY <1>4 DEF ReceiveItems
  <2>2. /\ todo' \in Seq(Items) /\ Len(todo') = upto - from
        /\ \A j \in 1..(upto - from) : todo'[j] = log[from + j]
    <3>1. log \in Seq(Items)
      BY DEF IInv, Types
    <3> QED
      BY <2>1, <3>1, SubSeqProperties
  <2>3. LoopReadsLog'
    BY <2>1, <2>2 DEF LoopReadsLog
  <2> QED
    BY <2>1, <2>3 DEF IInv, Types, AllRight, Right, AtItsIndex, NothingForgotten
<1>5. CASE AppendItem
  BY <1>5, AppendStep
<1>6. CASE ReturnState
  <2>1. /\ state' = local /\ pc = "append" /\ pc' = "ready"
        /\ UNCHANGED <<log, rows, local>>
    BY <1>6 DEF ReturnState, Returned, call
  <2> QED
    BY <2>1 DEF IInv, Types, AllRight, Right, AtItsIndex, LoopReadsLog,
                NothingForgotten
<1>7. ASSUME NEW i \in Items, Grant(i) PROVE IInv'
  BY <1>7, GrantStep
<1>8. ASSUME NEW l \in Locations, CheckLocation(l) PROVE IInv'
  <2>1. /\ state' = apply_location_checked(state, l)
        /\ UNCHANGED <<log, rows, pc, local, index, todo>>
    BY <1>8 DEF CheckLocation, call
  <2>2. DOMAIN state' = Fields /\ state'.received_items = state.received_items
    BY <2>1 DEF apply_location_checked, IInv, Types, Fields
  <2> QED
    BY <2>1, <2>2 DEF IInv, Types, AllRight, Right, AtItsIndex, LoopReadsLog,
                      NothingForgotten
<1>9. CASE UNCHANGED vars
  BY <1>9 DEF vars, call, IInv, Types, AllRight, Right, AtItsIndex,
              LoopReadsLog, NothingForgotten
<1> QED
  BY <1>1, <1>2, <1>3, <1>4, <1>5, <1>6, <1>7, <1>8, <1>9 DEF Next, Receive

(* Whatever was repeated, lost, reloaded or replaced: an item the client    *)
(* has at an index, in memory or in the table, is the server's item there, *)
(* and between two packets a running client knows all that is stored.      *)
THEOREM ItemsAtTheirIndexTheorem == Spec => []ItemsAtTheirIndex
<1>1. IInv => ItemsAtTheirIndex
  BY DEF IInv, AllRight, Right, NothingForgotten, ItemsAtTheirIndex
<1> QED
  BY <1>1, IInvInit, IInvStep, PTL DEF Spec

(* No packet takes an item from a running client: a full inventory reaches *)
(* at least as far as anything it has, since that is from the same log.    *)
THEOREM ItemsNeverTakenBackTheorem == Spec => ItemsNeverTakenBack
<1>1. IInv /\ IInv' /\ [Next]_vars =>
        [pc' # "down" => DOMAIN state.received_items \subseteq
                            DOMAIN state'.received_items]_vars
  <2> SUFFICES ASSUME IInv, Next, pc' # "down"
               PROVE  DOMAIN state.received_items \subseteq
                         DOMAIN state'.received_items
    BY DEF vars
  <2>1. CASE Start
    BY <2>1 DEF Start, IInv, NothingForgotten
  <2>2. CASE Stop
    BY <2>2 DEF Stop
  <2>3. CASE ReceiveInventory
    <3>1. state'.received_items = Inventory
      BY <2>3 DEF ReceiveInventory, apply_full_inventory_reset, ClientState
    <3>2. DOMAIN Inventory = 0..(Len(log) - 1) /\ Len(log) \in Nat
      BY DEF Inventory, IInv, Types
    <3> QED
      BY <3>1, <3>2 DEF IInv, AllRight, Right, AtItsIndex
  <2>4. CASE ReturnState
    BY <2>4 DEF ReturnState, Returned, IInv, NothingForgotten
  <2>5. ASSUME NEW l \in Locations, CheckLocation(l)
        PROVE  state'.received_items = state.received_items
    BY <2>5 DEF CheckLocation, apply_location_checked, IInv, Types, Fields
  <2>6. CASE \/ AppendItem
             \/ \E from \in 1..Len(log) : \E upto \in (from + 1)..Len(log) :
                   ReceiveItems(from, upto)
             \/ \E i \in Items : Grant(i)
    BY <2>6 DEF AppendItem, ReceiveItems, Grant
  <2> QED
    BY <2>1, <2>2, <2>3, <2>4, <2>5, <2>6 DEF Next, Receive
<1> QED
  BY <1>1, IInvInit, IInvStep, PTL DEF Spec, ItemsNeverTakenBack
-----------------------------------------------------------------------------
(* The two views of the items.  Each operation that sets an item sets it in *)
(* both, and everything else replaces both or none.                        *)
Agree(s) == s.item_instance_ids = Instances(s.received_items)
ViewsInv ==
    /\ Len(log) <= MaxGrants
    /\ Agree(state) /\ Agree(local)

\* A state built of a table has both views of it.
LEMMA BuiltAgrees ==
    ASSUME NEW table, NEW locations
    PROVE  /\ Agree(ClientState(table, locations))
           /\ ClientState(table, locations).received_items = table
BY DEF Agree, ClientState

\* An item set in one view is set in the other, if the index had no other.
LEMMA AppliedAgrees ==
    ASSUME NEW s, DOMAIN s = Fields, Agree(s), NEW k, NEW i \in Items,
           k \in DOMAIN s.received_items => s.received_items[k] = i
    PROVE  Agree(apply_received_item(s, k, i))
<1> DEFINE t == s.received_items
           r == apply_received_item(s, k, i)
<1>1. /\ r.received_items = With(t, k, i)
      /\ r.item_instance_ids = [Instances(t) EXCEPT ![i] = @ \cup {k}]
  BY DEF apply_received_item, Fields, Agree
<1>2. DOMAIN With(t, k, i) = DOMAIN t \cup {k}
      /\ \A j \in DOMAIN t \cup {k} : With(t, k, i)[j] = IF j = k THEN i ELSE t[j]
  BY DEF With
<1>3. ASSUME NEW x \in Items
      PROVE  [Instances(t) EXCEPT ![i] = @ \cup {k}][x] = Instances(With(t, k, i))[x]
  <2>1. Instances(With(t, k, i))[x] = {j \in DOMAIN t \cup {k} : With(t, k, i)[j] = x}
    BY <1>2 DEF Instances
  <2>2. Instances(t)[x] = {j \in DOMAIN t : t[j] = x}
    BY DEF Instances
  <2>3. CASE x = i
    <3>1. [Instances(t) EXCEPT ![i] = @ \cup {k}][x] = {j \in DOMAIN t : t[j] = x} \cup {k}
      BY <2>2, <2>3 DEF Instances
    <3> QED BY <1>2, <2>1, <2>3, <3>1
  <2>4. CASE x # i
    <3>1. [Instances(t) EXCEPT ![i] = @ \cup {k}][x] = {j \in DOMAIN t : t[j] = x}
      BY <2>2, <2>4 DEF Instances
    <3> QED BY <1>2, <2>1, <2>4, <3>1
  <2> QED BY <2>3, <2>4
<1>4. [Instances(t) EXCEPT ![i] = @ \cup {k}] = Instances(With(t, k, i))
  BY <1>3 DEF Instances
<1> QED BY <1>1, <1>4 DEF Agree

\* Every step keeps the two views together.
LEMMA ViewsStep == IInv /\ ViewsInv /\ [Next]_vars => ViewsInv'
<1> SUFFICES ASSUME IInv, ViewsInv, [Next]_vars PROVE ViewsInv'
  OBVIOUS
<1>1. CASE Start
  BY <1>1, BuiltAgrees DEF Start, call, ViewsInv, Agree
<1>2. CASE Stop
  BY <1>2, BuiltAgrees DEF Stop, Blank, ViewsInv, Agree
<1>3. CASE ReceiveInventory
  BY <1>3, BuiltAgrees DEF ReceiveInventory, apply_full_inventory_reset, call, ViewsInv, Agree
<1>4. ASSUME NEW from \in 1..Len(log), NEW upto \in (from + 1)..Len(log),
             ReceiveItems(from, upto)
      PROVE  ViewsInv'
  BY <1>4 DEF ReceiveItems, ViewsInv, Agree
<1>5. CASE AppendItem
  <2>1. /\ index \in Nat /\ todo \in Seq(Items) /\ todo # <<>>
        /\ \A j \in 1..Len(todo) : index + j <= Len(log) /\ todo[j] = log[index + j]
        /\ local' = apply_received_item(local, index, Head(todo))
        /\ UNCHANGED <<log, state>>
    BY <1>5 DEF AppendItem, IInv, LoopReadsLog
  <2>2. Head(todo) \in Items /\ Head(todo) = log[index + 1]
    BY <2>1
  <2>3. index \in DOMAIN local.received_items => local.received_items[index] = Head(todo)
    BY <2>2 DEF IInv, AllRight, Right, AtItsIndex
  <2>4. Agree(local')
    BY <2>1, <2>2, <2>3, AppliedAgrees DEF IInv, Types, ViewsInv
  <2> QED BY <2>1, <2>4 DEF ViewsInv, Agree
<1>6. CASE ReturnState
  BY <1>6 DEF ReturnState, Returned, call, ViewsInv, Agree
<1>7. ASSUME NEW i \in Items, Grant(i) PROVE ViewsInv'
  <2>1. Len(log') = Len(log) + 1 /\ Len(log) \in Nat /\ Len(log) < MaxGrants
        /\ UNCHANGED <<state, local>>
    BY <1>7 DEF Grant, call, IInv, Types
  <2> QED BY <2>1, BoundsAssumption DEF ViewsInv, Agree
<1>8. ASSUME NEW l \in Locations, CheckLocation(l) PROVE ViewsInv'
  <2>1. state' = apply_location_checked(state, l) /\ UNCHANGED <<log, local>>
    BY <1>8 DEF CheckLocation, call
  <2>2. /\ state'.received_items = state.received_items
        /\ state'.item_instance_ids = state.item_instance_ids
    BY <2>1 DEF apply_location_checked, IInv, Types, Fields
  <2> QED BY <2>1, <2>2 DEF ViewsInv, Agree
<1>9. CASE UNCHANGED vars
  BY <1>9 DEF vars, call, ViewsInv, Agree
<1> QED
  BY <1>1, <1>2, <1>3, <1>4, <1>5, <1>6, <1>7, <1>8, <1>9 DEF Next, Receive

\* The money of a state whose views agree: each server's item it has, once.
LEMMA MoneyOfAgreeing ==
    ASSUME log \in Seq(Items), NEW s, Right(s.received_items), Agree(s)
    PROVE  Money(s) = SumFunction([k \in DOMAIN s.received_items |-> Price[log[k + 1]]])
<1> DEFINE t == s.received_items
           D == DOMAIN t
           f == [i \in Items |-> Price[i] * Cardinality(s.item_instance_ids[i])]
           g == [k \in D |-> Price[log[k + 1]]]
<1>1. D \subseteq 0..(Len(log) - 1) /\ \A k \in D : t[k] = log[k + 1] /\ t[k] \in Items
  BY DEF Right, AtItsIndex
<1>2. IsFiniteSet(D)
  <2>1. IsFiniteSet(0..(Len(log) - 1))
    BY FS_Interval
  <2> QED BY <1>1, <2>1, FS_Subset
<1>3. f = ByValue(Price, t, Items, D)
  BY DEF ByValue, Agree, Instances
<1>4. g = ByElement(Price, t, D)
  BY <1>1 DEF ByElement
<1>5. SumFunctionOnSet(f, Items) = SumFunctionOnSet(g, D)
  <2> HIDE DEF f, g, D, t
  <2>1. \A k \in D : t[k] \in Items
    BY <1>1
  <2>2. SumFunctionOnSet(ByValue(Price, t, Items, D), Items)
           = SumFunctionOnSet(ByElement(Price, t, D), D)
    BY <1>2, <2>1, ItemsAssumption, PriceAssumption, SumByValue
  <2> QED BY <1>3, <1>4, <2>2
<1>6. DOMAIN f = Items /\ DOMAIN g = D
  OBVIOUS
<1> QED BY <1>5, <1>6 DEF Money, SumFunction

(* "replay does not double money": however often an item is handed over,    *)
(* the desired state counts it once, in memory and in what is being built.  *)
THEOREM MoneyCountsEachItemOnceTheorem == Spec => []MoneyCountsEachItemOnce
<1>1. Init => ViewsInv
  BY BuiltAgrees, BoundsAssumption DEF Init, Blank, ViewsInv, Agree
<1>2. IInv /\ ViewsInv => MoneyCountsEachItemOnce
  <2> SUFFICES ASSUME IInv, ViewsInv, NEW s \in {state, local}
               PROVE  /\ \A i \in Items : \A k \in Indices :
                            k \in s.item_instance_ids[i] <=>
                               k \in DOMAIN s.received_items /\ s.received_items[k] = i
                      /\ Money(s) = SumFunction([k \in DOMAIN s.received_items |->
                                                    Price[log[k + 1]]])
    BY DEF MoneyCountsEachItemOnce
  <2>1. Right(s.received_items) /\ Agree(s) /\ log \in Seq(Items)
    BY DEF IInv, AllRight, ViewsInv, Types
  <2>2. \A i \in Items : s.item_instance_ids[i]
           = {k \in DOMAIN s.received_items : s.received_items[k] = i}
    BY <2>1 DEF Agree, Instances
  <2> QED BY <2>1, <2>2, MoneyOfAgreeing
<1> QED
  BY <1>1, <1>2, IInvInit, IInvStep, ViewsStep, PTL DEF Spec
-----------------------------------------------------------------------------
(* Captures and what is concluded from them.  A chunk agrees with what is  *)
(* known of the memory if it has what is known of each of its words.       *)
Agrees(bytes, at, known) ==
    /\ Len(bytes) \in Nat
    /\ \A i \in 1..Len(bytes) : at + i - 1 \in DOMAIN known => bytes[i] = known[at + i - 1]

MemoryTypes ==
    /\ game \in [Words -> Nat]
    /\ DOMAIN files = {"captures", "snapshots", "dumps", "diffs", "garage", "heard"}
    /\ DOMAIN files.captures = Names /\ DOMAIN files.snapshots = Labels
    /\ DOMAIN truth = Names \cup Labels
    /\ DOMAIN bounds = {"writes", "fails", "runs", "kind"} /\ bounds.kind \in DOMAIN Free
    /\ bounds.runs \in Nat

ProgramTypes ==
    /\ prog.kind \in {"none", "capture", "snapshot", "dump", "monitor", "listener"}
    /\ prog.kind = "none" => prog = Idle
    /\ prog.kind # "none" =>
          /\ DOMAIN prog = {"kind", "name", "todo", "got", "at", "steady", "prev", "step"}
          /\ prog.steady \subseteq Words

\* The files of a capture: bytes at addresses.
ChunkFiles ==
    \A n \in Names :
       /\ IsFiniteSet(DOMAIN files.captures[n])
       /\ \A b \in DOMAIN files.captures[n] : b \in Nat /\ Len(files.captures[n][b]) \in Nat

\* What a capture has written is right for the words that stood still.
Capturing == prog.kind = "capture" =>
    /\ prog.name \in Names /\ truth[prog.name] = Nothing
    /\ prog.todo \in Seq(Nat \X Nat) /\ prog.got \in Seq(Nat)
    /\ \A b \in ToSet(prog.got) :
          /\ b \in DOMAIN files.captures[prog.name]
          /\ Agrees(files.captures[prog.name][b], b, Known)

CapturesTrue ==
    \A n \in Names : truth[n] # Nothing =>
       \A b \in DOMAIN files.captures[n] : Agrees(files.captures[n][b], b, truth[n])

\* Where a region is read if the profile does not move, and where its rows are.
RegionAt(r, ptr) == IF r[1] = "profile_data" THEN ptr ELSE r[2]

IsBytes(bytes) == Len(bytes) \in Nat /\ DOMAIN bytes = 1..Len(bytes)
RegionRight(bytes, r, known) ==
    /\ IsBytes(bytes)
    /\ 0 \in DOMAIN known /\ Plausible(known[0]) =>
          Agrees(bytes, RegionAt(r, known[0]), known)

\* A snapshot has read each region or has it to read; and if the pointer stood
\* still and is plausible, the profile is read where it points.
Snapshotting == prog.kind = "snapshot" =>
    /\ prog.name \in Labels
    /\ prog.todo \in Seq(Range(Regions))
    /\ prog.at # 0 /\ 0 \in prog.steady /\ Plausible(game[0]) => prog.at = game[0]
    /\ \A r \in Range(Regions) :
          \/ r \in Range(prog.todo)
          \/ r[1] \in DOMAIN prog.got /\ RegionRight(prog.got[r[1]], r, Known)

SnapshotsTrue ==
    \A l \in Labels : truth[l] # Nothing =>
       /\ 0 \in DOMAIN truth[l] => files.snapshots[l].ptr = truth[l][0]
       /\ \A r \in Range(Regions) :
             RegionRight(files.snapshots[l].regions[r[1]], r, truth[l])

\* The pieces of a dump and their lengths.
Bases == {b \in 0..(Size - 1) : b % Chunk = 0}
PieceAt(b) == <<b, Least(Chunk, Size - b)>>
Piece(chunk, b) == chunk = Nothing \/ DOMAIN chunk = 1..Least(Chunk, Size - b)

WholeDumps == [Bases -> Seq(Nat)]
Whole(chunks) == chunks \in WholeDumps /\ \A b \in Bases : Piece(chunks[b], b)

Dumping == prog.kind = "dump" =>
    /\ prog.todo \in Seq({PieceAt(b) : b \in Bases})
    /\ DOMAIN prog.got \subseteq Bases /\ prog.got \in [DOMAIN prog.got -> Seq(Nat)]
    /\ \A b \in Bases : b \in DOMAIN prog.got \/ PieceAt(b) \in Range(prog.todo)
    /\ \A b \in DOMAIN prog.got : Piece(prog.got[b], b)

\* A run at a dump has written those before, perhaps this one, and the differences
\* up to the dump before; the files after those are of earlier runs.
Numbered(dumps, diffs, run, at, written) ==
    /\ at \in Nat /\ written \in {at, at + 1}
    /\ \A i \in 0..(written - 1) : i \in DOMAIN dumps /\ dumps[i].run = run
    /\ \A i \in DOMAIN dumps : dumps[i].run = run => i < written
    /\ \A k \in 1..(at - 1) : k \in DOMAIN diffs /\ diffs[k].run = run
    /\ \A k \in DOMAIN diffs : diffs[k].run = run => k < at
SeriesGoesOn == prog.kind = "dump" =>
    /\ prog.step \in {"read", "compare"}
    /\ Numbered(files.dumps, files.diffs, bounds.runs, prog.at,
                IF prog.step = "compare" THEN prog.at + 1 ELSE prog.at)
    /\ prog.prev = IF prog.at = 0 THEN Nothing ELSE files.dumps[prog.at - 1].chunks
    /\ prog.step = "compare" => prog.todo = <<>> /\ prog.got = files.dumps[prog.at].chunks

\* Every dump has every piece; no file is of a run to come.
Marked(dumps, diffs, run) ==
    /\ \A i \in DOMAIN dumps : i \in Nat /\ dumps[i].run \in 0..run /\ Whole(dumps[i].chunks)
    /\ \A k \in DOMAIN diffs : /\ k \in Nat \ {0} /\ diffs[k].run \in 0..run
                               /\ diffs[k].rows \in SUBSET (Nat \X Nat \X Nat)
\* The differences of the newest series are of neighbours.
Neighbours(dumps, diffs) ==
    \A k \in DOMAIN diffs : diffs[k].run = dumps[0].run =>
       diffs[k].rows = Changes(dumps[k - 1].chunks, dumps[k].chunks)
\* Only the newest dump lacks its difference.
Complete(dumps, diffs) ==
    \A last \in DOMAIN dumps :
       (\A j \in 0..last : j \in DOMAIN dumps /\ dumps[j].run = dumps[0].run)
       => \A k \in 1..(last - 1) : k \in DOMAIN diffs /\ diffs[k].run = dumps[0].run
SeriesRight ==
    /\ Marked(files.dumps, files.diffs, bounds.runs)
    /\ Neighbours(files.dumps, files.diffs) /\ Complete(files.dumps, files.diffs)

\* A pass over watched words has read the first of them.
Following(slots) ==
    /\ prog.got \in Seq(Nat) /\ Len(prog.got) <= Len(slots)
    /\ prog.todo = SubSeq(slots, Len(prog.got) + 1, Len(slots))
    /\ \A j \in 1..Len(prog.got) : slots[j] \in prog.steady => prog.got[j] = game[slots[j]]
Watching ==
    /\ prog.kind = "monitor" => Following(GarageSlots)
    /\ prog.kind = "listener" => Following(Heard)

LineRecords == [added : SUBSET Nat, removed : SUBSET Nat]
LinesAddUp == files.garage # Nothing =>
    /\ files.garage \in [first : SUBSET Nat, last : SUBSET Nat, lines : Seq(LineRecords)]
    /\ Replayed(files.garage) = files.garage.last

EventRecords == {"money", "race_start", "race_finish", "position"} \X Int
EventLogs == [first : Int, last : Seq(Nat), racing : BOOLEAN, events : Seq(EventRecords),
              polls : {0, 1}]
\* The flag tells whether the player was last seen in a race, or, at first, in free roam.
RacingRight(log1) ==
    log1.racing <=> \/ log1.last[2] < FreeRoam
                    \/ log1.polls = 0 /\ log1.last[2] = FreeRoam
EventsAddUp == files.heard # Nothing =>
    /\ files.heard \in EventLogs /\ RacingRight(files.heard)
    /\ Len(files.heard.last) = 4
    /\ Total(files.heard) = files.heard.last[1]

CaptureInv ==
    /\ MemoryTypes /\ ProgramTypes
    /\ ChunkFiles /\ Capturing /\ CapturesTrue
    /\ Snapshotting /\ SnapshotsTrue
    /\ Dumping /\ SeriesGoesOn /\ SeriesRight
    /\ Watching /\ LinesAddUp /\ EventsAddUp
-----------------------------------------------------------------------------
(* The operators on sequences, sets and functions.                         *)
\* Finitely many numbers can be put in order.
LEMMA OrderExists ==
    ASSUME NEW S \in SUBSET Nat, IsFiniteSet(S)
    PROVE  \E seq \in [1..Cardinality(S) -> S] :
              \A i, j \in 1..Cardinality(S) : i < j => seq[i] < seq[j]
<1> DEFINE T == {n \in Nat : \A R \in SUBSET Nat :
                    IsFiniteSet(R) /\ Cardinality(R) = n =>
                       \E seq \in [1..n -> R] : \A i, j \in 1..n : i < j => seq[i] < seq[j]}
<1>1. 0 \in T
  <2> SUFFICES ASSUME NEW R \in SUBSET Nat
               PROVE  \E seq \in [1..0 -> R] : \A i, j \in 1..0 : i < j => seq[i] < seq[j]
    OBVIOUS
  <2>1. [i \in 1..0 |-> 0] \in [1..0 -> R]
    OBVIOUS
  <2>2. \A i \in 1..0 : FALSE
    OBVIOUS
  <2> QED
    BY <2>1, <2>2
<1>2. ASSUME NEW n \in T PROVE n + 1 \in T
  <2> SUFFICES ASSUME NEW R \in SUBSET Nat, IsFiniteSet(R), Cardinality(R) = n + 1
               PROVE  \E seq \in [1..(n + 1) -> R] :
                         \A i, j \in 1..(n + 1) : i < j => seq[i] < seq[j]
    OBVIOUS
  <2>1. R # {}
    BY FS_EmptySet
  <2>2. PICK m \in R : \A x \in R : x <= m
    BY <2>1, LeastAndGreatest
  <2>3. R \ {m} \in SUBSET Nat /\ IsFiniteSet(R \ {m}) /\ Cardinality(R \ {m}) = n
    BY FS_RemoveElement
  <2>4. PICK old \in [1..n -> R \ {m}] : \A i, j \in 1..n : i < j => old[i] < old[j]
    BY <2>3
  <2> DEFINE seq == [i \in 1..(n + 1) |-> IF i = n + 1 THEN m ELSE old[i]]
  <2>5. \A i \in 1..(n + 1) : i # n + 1 => i \in 1..n
    OBVIOUS
  <2>6. seq \in [1..(n + 1) -> R]
    BY <2>4, <2>5
  <2>7. ASSUME NEW i \in 1..(n + 1), NEW j \in 1..(n + 1), i < j PROVE seq[i] < seq[j]
    <3>1. i \in 1..n /\ seq[i] = old[i] /\ old[i] \in R \ {m}
      BY <2>4, <2>7
    <3>2. CASE j = n + 1
      <4>1. seq[j] = m /\ seq[i] \in Nat /\ m \in Nat /\ seq[i] <= m /\ seq[i] # m
        BY <2>2, <3>1, <3>2
      <4> QED
        BY <4>1
    <3>3. CASE j # n + 1
      BY <2>4, <2>5, <2>7, <3>1, <3>3
    <3> QED
      BY <3>2, <3>3
  <2> QED
    BY <2>6, <2>7
<1>3. T = Nat
  <2> HIDE DEF T
  <2>1. T \in SUBSET Nat
    BY DEF T
  <2> QED BY <1>1, <1>2, <2>1, Induction
<1>4. Cardinality(S) \in Nat
  BY FS_CardinalityType
<1> QED
  BY <1>3, <1>4

\* All of them are there.
LEMMA InOrderFacts ==
    ASSUME NEW S \in SUBSET Nat, IsFiniteSet(S)
    PROVE  /\ Cardinality(S) \in Nat
           /\ InOrder(S) \in [1..Cardinality(S) -> S]
           /\ \A x \in S : \E i \in 1..Cardinality(S) : InOrder(S)[i] = x
<1> DEFINE n == Cardinality(S)
           seq == InOrder(S)
<1>1. n \in Nat
  BY FS_CardinalityType
<1>2. seq \in [1..n -> S] /\ \A i, j \in 1..n : i < j => seq[i] < seq[j]
  BY OrderExists DEF InOrder
<1> HIDE DEF seq
<1>3. \A i, j \in 1..n : seq[i] = seq[j] => i = j
  <2> SUFFICES ASSUME NEW i \in 1..n, NEW j \in 1..n, seq[i] = seq[j], i # j PROVE FALSE
    OBVIOUS
  <2>1. i < j \/ j < i
    OBVIOUS
  <2>2. seq[i] \in Nat /\ seq[j] \in Nat
    BY <1>2
  <2> QED
    BY <1>2, <2>1, <2>2
<1>4. seq \in Injection(1..n, S)
  BY <1>2, <1>3 DEF Injection, IsInjective
<1>5. IsFiniteSet(1..n) /\ Cardinality(1..n) = n
  <2>1. 1 \in Int /\ n \in Int
    BY <1>1
  <2>2. IsFiniteSet(1..n) /\ Cardinality(1..n) = IF 1 > n THEN 0 ELSE n - 1 + 1
    BY ONLY <2>1, FS_Interval
  <2> QED
    BY <1>1, <2>2
<1>6. seq \in Surjection(1..n, S)
  BY <1>4, <1>5, FS_Injection
<1>7. \A x \in S : \E i \in 1..n : seq[i] = x
  BY <1>6 DEF Surjection
<1> QED
  BY <1>1, <1>2, <1>7 DEF seq

\* Sequences one after the other have no element of their own.
LEMMA Flattened ==
    ASSUME NEW S, NEW s \in Seq(Seq(S))
    PROVE  FlattenSeq(s) \in Seq(S)
<1>1. CASE Len(s) = 0
  <2>1. s = <<>>
    BY <1>1
  <2> QED
    BY <1>1, <2>1 DEF FlattenSeq
<1>2. CASE Len(s) # 0
  <2> DEFINE m == Len(s)
  <2> DEFINE Flat(f, n) == /\ f \in [1..n -> Seq(S)]
                            /\ \A i \in 1..n : f[i] = IF i = 1 THEN s[i] ELSE f[i - 1] \o s[i]
  <2> DEFINE T == {k \in Nat : k + 1 <= m => \E f : Flat(f, k + 1)}
  <2>0. m \in Nat \ {0} /\ \A i \in 1..m : s[i] \in Seq(S)
    BY <1>2
  <2> HIDE DEF m
  <2>1. 0 \in T
    <3>1. Flat([i \in 1..1 |-> s[1]], 1)
      BY <2>0
    <3>2. 0 + 1 = 1
      OBVIOUS
    <3> HIDE DEF Flat
    <3> QED
      BY <3>1, <3>2
  <2>2. ASSUME NEW k \in T PROVE k + 1 \in T
    <3> SUFFICES ASSUME k + 1 + 1 <= m PROVE \E f : Flat(f, k + 1 + 1)
      <4> HIDE DEF Flat
      <4> QED
        OBVIOUS
    <3>1. PICK f : Flat(f, k + 1)
      BY <2>0
    <3> DEFINE g == [i \in 1..(k + 2) |-> IF i = k + 2 THEN f[k + 1] \o s[k + 2] ELSE f[i]]
    <3>2. \A i \in 1..(k + 2) : i # k + 2 => i \in 1..(k + 1)
      OBVIOUS
    <3>3. k + 1 \in 1..(k + 1) /\ k + 2 \in 1..m /\ k + 2 # 1
      BY <2>0
    <3>4. f[k + 1] \in Seq(S) /\ s[k + 2] \in Seq(S)
      BY <2>0, <3>1, <3>3
    <3>5. f[k + 1] \o s[k + 2] \in Seq(S)
      BY <3>4, ConcatProperties
    <3>6. g \in [1..(k + 2) -> Seq(S)]
      BY <3>1, <3>2, <3>5
    <3>7. ASSUME NEW i \in 1..(k + 2)
          PROVE  g[i] = IF i = 1 THEN s[i] ELSE g[i - 1] \o s[i]
      <4>1. CASE i = k + 2
        <5>1. i - 1 = k + 1 /\ i # 1 /\ i - 1 # k + 2 /\ i - 1 \in 1..(k + 2)
          BY <4>1
        <5> QED
          BY <4>1, <5>1
      <4>2. CASE i # k + 2
        <5>1. i \in 1..(k + 1) /\ g[i] = f[i]
          BY <3>2, <4>2
        <5>2. i # 1 => i - 1 \in 1..(k + 2) /\ i - 1 # k + 2
          OBVIOUS
        <5>3. i # 1 => g[i - 1] = f[i - 1]
          BY <5>2
        <5> QED
          BY <3>1, <5>1, <5>3
      <4> QED
        BY <4>1, <4>2
    <3>8. Flat(g, k + 2)
      BY <3>6, <3>7
    <3>9. k + 1 + 1 = k + 2
      OBVIOUS
    <3> QED
      BY <3>8, <3>9
  <2>3. T = Nat
    <3> HIDE DEF T
    <3>1. T \in SUBSET Nat
      BY DEF T
    <3> QED BY <2>1, <2>2, <3>1, Induction
  <2>4. m - 1 \in Nat /\ (m - 1) + 1 = m
    BY <2>0
  <2>5. PICK f : Flat(f, m)
    <3> HIDE DEF Flat
    <3>1. \A k \in Nat : k + 1 <= m => \E f : Flat(f, k + 1)
      BY <2>3
    <3>2. (m - 1) + 1 <= m
      BY <2>0
    <3>3. \E f : Flat(f, (m - 1) + 1)
      BY <2>4, <3>1, <3>2
    <3> QED
      BY <2>4, <3>3
  <2>6. f = [i \in 1..m |-> IF i = 1 THEN s[i] ELSE f[i - 1] \o s[i]]
    BY <2>5
  <2> DEFINE IsFlat(g) == g = [i \in 1..m |-> IF i = 1 THEN s[i] ELSE g[i - 1] \o s[i]]
             flat == CHOOSE g : IsFlat(g)
  <2>7. IsFlat(f)
    BY <2>6
  <2>8. IsFlat(flat)
    BY <2>7
  <2>9. FlattenSeq(s) = flat[m]
    BY <1>2 DEF FlattenSeq, m
  <2> DEFINE U == {k \in Nat : k + 1 <= m => flat[k + 1] \in Seq(S)}
  <2> HIDE DEF flat
  <2>10. \A i \in 1..m : flat[i] = IF i = 1 THEN s[i] ELSE flat[i - 1] \o s[i]
    BY <2>8
  <2>11. 0 \in U
    <3>1. 1 \in 1..m
      BY <2>0
    <3> QED
      BY <2>0, <2>10, <3>1
  <2>12. ASSUME NEW k \in U PROVE k + 1 \in U
    <3> SUFFICES ASSUME k + 2 <= m PROVE flat[k + 2] \in Seq(S)
      <4>1. k + 1 + 1 = k + 2
        OBVIOUS
      <4> QED
        BY <4>1
    <3>1. k + 2 \in 1..m /\ k + 2 # 1 /\ (k + 2) - 1 = k + 1
      BY <2>0
    <3>2. flat[k + 1] \in Seq(S) /\ s[k + 2] \in Seq(S)
      BY <2>0, <3>1
    <3>3. flat[k + 1] \o s[k + 2] \in Seq(S)
      BY <3>2, ConcatProperties
    <3> QED
      BY <2>10, <3>1, <3>3
  <2>13. U = Nat
    <3> HIDE DEF U
    <3>1. U \in SUBSET Nat
      BY DEF U
    <3> QED BY <2>11, <2>12, <3>1, Induction
  <2>14. flat[(m - 1) + 1] \in Seq(S)
    <3>1. \A k \in Nat : k + 1 <= m => flat[k + 1] \in Seq(S)
      BY <2>13
    <3>2. (m - 1) + 1 <= m
      BY <2>0
    <3> QED
      BY <2>4, <3>1, <3>2
  <2> QED
    BY <2>4, <2>9, <2>14
<1> QED
  BY <1>1, <1>2
-----------------------------------------------------------------------------
(* The pieces a range is read in are those that begin at its multiples.    *)
LEMMA PiecesFacts ==
    ASSUME NEW lo \in Nat, NEW hi \in Nat
    PROVE  LET bases == {b \in lo..(hi - 1) : (b - lo) % Chunk = 0} IN
           /\ Pieces(lo, hi) \in Seq(Nat \X Nat)
           /\ \A i \in DOMAIN Pieces(lo, hi) :
                 \E b \in bases : Pieces(lo, hi)[i] = <<b, Least(Chunk, hi - b)>>
           /\ \A b \in bases :
                 \E i \in DOMAIN Pieces(lo, hi) : Pieces(lo, hi)[i] = <<b, Least(Chunk, hi - b)>>
<1> DEFINE bases == {b \in lo..(hi - 1) : (b - lo) % Chunk = 0}
           n == Cardinality(bases)
<1>1. IsFiniteSet(bases)
  <2>1. lo \in Int /\ hi - 1 \in Int
    OBVIOUS
  <2>2. IsFiniteSet(lo..(hi - 1))
    BY ONLY <2>1, FS_Interval
  <2>3. bases \in SUBSET (lo..(hi - 1))
    OBVIOUS
  <2> QED
    BY ONLY <2>2, <2>3, FS_Subset
<1>2. bases \in SUBSET Nat /\ \A b \in bases : b < hi
  OBVIOUS
<1>3. /\ n \in Nat /\ InOrder(bases) \in [1..n -> bases]
      /\ \A x \in bases : \E i \in 1..n : InOrder(bases)[i] = x
  <2> HIDE DEF bases
  <2> QED
    BY <1>1, <1>2, InOrderFacts
<1>4. Pieces(lo, hi) = [i \in 1..n |-> <<InOrder(bases)[i], Least(Chunk, hi - InOrder(bases)[i])>>]
  BY <1>3 DEF Pieces
<1>5. \A b \in bases : Least(Chunk, hi - b) \in Nat
  BY <1>2, MemoryAssumption DEF Least
<1> HIDE DEF bases, n
<1>6. \A i \in 1..n : InOrder(bases)[i] \in bases
  BY <1>3
<1>7. Pieces(lo, hi) \in [1..n -> Nat \X Nat]
  <2>1. \A i \in 1..n : InOrder(bases)[i] \in Nat /\ Least(Chunk, hi - InOrder(bases)[i]) \in Nat
    BY <1>2, <1>5, <1>6
  <2> QED
    BY <1>4, <2>1
<1>8. Pieces(lo, hi) \in Seq(Nat \X Nat)
  BY <1>3, <1>7
<1>9. /\ \A i \in DOMAIN Pieces(lo, hi) :
            \E b \in bases : Pieces(lo, hi)[i] = <<b, Least(Chunk, hi - b)>>
      /\ \A b \in bases :
            \E i \in DOMAIN Pieces(lo, hi) : Pieces(lo, hi)[i] = <<b, Least(Chunk, hi - b)>>
  BY <1>3, <1>4, <1>6
<1> QED
  BY <1>8, <1>9 DEF bases

(* The money events, added up, as Replayed adds them: the function the sum *)
(* is computed by, and its parts.                                          *)
Amount(e) == IF e[1] = "money" THEN e[2] ELSE 0
Sum(base, s) ==
    FoldLeft(LAMBDA sum, e : sum + IF e[1] = "money" THEN e[2] ELSE 0, base, s)
AddedUp(it, base, s, t) ==
    IF t = {} THEN base ELSE it[t \ {Max(t)}] + Amount(s[Max(t)])
AddsUp(it, base, s) == it = [t \in SUBSET DOMAIN s |-> AddedUp(it, base, s, t)]
PartlyAdded(it, base, s, n) ==
    /\ it \in [UpTo(DOMAIN s, n) -> Int]
    /\ \A t \in UpTo(DOMAIN s, n) : it[t] = AddedUp(it, base, s, t)

\* Events have amounts, and a set of places of theirs has a last one.
LEMMA EventFacts ==
    ASSUME NEW s \in Seq(EventRecords)
    PROVE  /\ DOMAIN s \in SUBSET Nat /\ IsFiniteSet(DOMAIN s) /\ DOMAIN s = 1..Len(s)
           /\ \A i \in DOMAIN s : Amount(s[i]) \in Int
           /\ \A t \in SUBSET DOMAIN s : t # {} =>
                 /\ Max(t) \in t /\ t \ {Max(t)} \in SUBSET DOMAIN s
                 /\ Amount(s[Max(t)]) \in Int
                 /\ Cardinality(t) \in Nat \ {0}
                 /\ Cardinality(t \ {Max(t)}) = Cardinality(t) - 1
<1>1. Len(s) \in Nat /\ DOMAIN s = 1..Len(s) /\ \A i \in DOMAIN s : s[i] \in EventRecords
  OBVIOUS
<1>2. IsFiniteSet(1..Len(s))
  <2>1. 1 \in Int /\ Len(s) \in Int
    BY <1>1
  <2> QED
    BY ONLY <2>1, FS_Interval
<1>3. \A i \in DOMAIN s : Amount(s[i]) \in Int
  BY <1>1 DEF Amount, EventRecords
<1>4. ASSUME NEW t \in SUBSET DOMAIN s, t # {}
      PROVE  /\ Max(t) \in t /\ t \ {Max(t)} \in SUBSET DOMAIN s
             /\ Amount(s[Max(t)]) \in Int
             /\ Cardinality(t) \in Nat \ {0}
             /\ Cardinality(t \ {Max(t)}) = Cardinality(t) - 1
  <2>1. t \in SUBSET (1..Len(s)) /\ t \in SUBSET Nat
    BY <1>1
  <2>2. IsFiniteSet(t)
    BY ONLY <1>2, <2>1, FS_Subset
  <2>3. Max(t) \in t
    BY <1>4, <2>1, <2>2, LeastAndGreatest
  <2>4. /\ Cardinality(t) \in Nat \ {0}
        /\ Cardinality(t \ {Max(t)}) = Cardinality(t) - 1
    BY <1>4, <2>2, <2>3, FS_CardinalityType, FS_EmptySet, FS_RemoveElement
  <2> QED
    BY <1>3, <2>3, <2>4
<1>5. DOMAIN s \in SUBSET Nat /\ IsFiniteSet(DOMAIN s) /\ DOMAIN s = 1..Len(s)
  BY <1>1, <1>2
<1> QED
  BY <1>3, <1>4, <1>5

\* Up to any number of events, there is such a function.
LEMMA PartlyAddedExists ==
    ASSUME NEW s \in Seq(EventRecords), NEW base \in Int, NEW n \in Nat
    PROVE  \E it : PartlyAdded(it, base, s, n)
<1> DEFINE T == {m \in Nat : \E it : PartlyAdded(it, base, s, m)}
<1>1. 0 \in T
  <2> DEFINE it == [t \in UpTo(DOMAIN s, 0) |-> base]
  <2>1. \A t \in UpTo(DOMAIN s, 0) : t = {}
    <3> SUFFICES ASSUME NEW t \in SUBSET DOMAIN s, Cardinality(t) <= 0, t # {} PROVE FALSE
      BY DEF UpTo
    <3>1. Cardinality(t) \in Nat \ {0}
      BY EventFacts
    <3> QED
      BY <3>1
  <2>2. PartlyAdded(it, base, s, 0)
    BY <2>1 DEF PartlyAdded, AddedUp
  <2> QED BY <2>2
<1>2. ASSUME NEW m \in T PROVE m + 1 \in T
  <2>1. PICK old : PartlyAdded(old, base, s, m)
    OBVIOUS
  <2> DEFINE it == [t \in UpTo(DOMAIN s, m + 1) |-> AddedUp(old, base, s, t)]
  <2>2. ASSUME NEW t \in UpTo(DOMAIN s, m + 1), t # {}
        PROVE  t \ {Max(t)} \in UpTo(DOMAIN s, m) /\ Amount(s[Max(t)]) \in Int
    BY <2>2, EventFacts DEF UpTo
  <2>3. UpTo(DOMAIN s, m) \subseteq UpTo(DOMAIN s, m + 1)
    <3> SUFFICES ASSUME NEW t \in UpTo(DOMAIN s, m) PROVE Cardinality(t) <= m + 1
      BY DEF UpTo
    <3>1. CASE t = {}
      BY <3>1, FS_EmptySet
    <3>2. CASE t # {}
      <4>1. t \in SUBSET DOMAIN s /\ Cardinality(t) <= m
        BY DEF UpTo
      <4>2. Cardinality(t) \in Nat
        BY <3>2, <4>1, EventFacts
      <4> QED
        BY <4>1, <4>2
    <3> QED
      BY <3>1, <3>2
  <2>4. \A t \in UpTo(DOMAIN s, m) : it[t] = old[t]
    BY <2>1, <2>3 DEF PartlyAdded
  <2>5. it \in [UpTo(DOMAIN s, m + 1) -> Int]
    BY <2>1, <2>2 DEF PartlyAdded, AddedUp
  <2>6. \A t \in UpTo(DOMAIN s, m + 1) : it[t] = AddedUp(it, base, s, t)
    BY <2>2, <2>4 DEF AddedUp
  <2>7. PartlyAdded(it, base, s, m + 1)
    BY <2>5, <2>6 DEF PartlyAdded
  <2> QED BY <2>7
<1>3. T = Nat
  <2> HIDE DEF T
  <2>1. T \in SUBSET Nat
    BY DEF T
  <2> QED BY <1>1, <1>2, <2>1, Induction
<1> QED BY <1>3

\* The sums over the beginnings of a sequence.
Sums(h, base, s) ==
    /\ h \in [0..Len(s) -> Int] /\ h[0] = base
    /\ \A k \in 1..Len(s) : h[k] = h[k - 1] + Amount(s[k])

\* The sum is the one that is reached event by event.
LEMMA SumOfBeginnings ==
    ASSUME NEW s \in Seq(EventRecords), NEW base \in Int
    PROVE  \E h : Sums(h, base, s) /\ Sum(base, s) = h[Len(s)]
<1> DEFINE n == Len(s)
           S == DOMAIN s
<1>1. n \in Nat /\ S = 1..n /\ IsFiniteSet(S)
  BY EventFacts
<1>2. Cardinality(S) \in Nat /\ UpTo(S, Cardinality(S)) = SUBSET S
  BY <1>1, FS_CardinalityType, FS_Subset DEF UpTo
<1>3. PICK it : PartlyAdded(it, base, s, Cardinality(S))
  BY <1>2, PartlyAddedExists
<1>4. AddsUp(it, base, s)
  BY <1>2, <1>3 DEF PartlyAdded, AddsUp
<1>5. PICK sum : AddsUp(sum, base, s) /\ Sum(base, s) = sum[S]
  BY <1>4 DEF Sum, FoldLeft, MapThenFoldSet, AddsUp, AddedUp, Amount
<1>6. \A t \in SUBSET S : sum[t] = AddedUp(sum, base, s, t)
  BY <1>5 DEF AddsUp
<1> DEFINE h == [k \in 0..n |-> sum[1..k]]
<1>7. ASSUME NEW k \in 1..n
      PROVE  1..k \in SUBSET S /\ sum[1..k] = sum[1..(k - 1)] + Amount(s[k])
  <2>1. 1..k \in SUBSET S /\ k \in 1..k /\ \A y \in 1..k : y <= k
    BY <1>1
  <2>2. Max(1..k) = k
    <3>1. \A x \in 1..k : (\A y \in 1..k : x >= y) => x = k
      OBVIOUS
    <3> QED
      BY <2>1, <3>1 DEF Max
  <2>3. (1..k) \ {k} = 1..(k - 1) /\ 1..k # {}
    OBVIOUS
  <2> QED
    BY <1>6, <2>1, <2>2, <2>3 DEF AddedUp
<1>8. sum[1..0] = base
  <2>1. 1..0 = {} /\ {} \in SUBSET S
    OBVIOUS
  <2> QED
    BY <1>6, <2>1 DEF AddedUp
<1>9. \A k \in 1..n : Amount(s[k]) \in Int
  BY <1>1, EventFacts
<1> DEFINE T == {k \in Nat : k <= n => sum[1..k] \in Int}
<1> HIDE DEF n, S
<1>10. 0 \in T
  BY <1>8
<1>11. ASSUME NEW k \in T PROVE k + 1 \in T
  <2> SUFFICES ASSUME k + 1 <= n PROVE sum[1..(k + 1)] \in Int
    OBVIOUS
  <2>1. k + 1 \in 1..n /\ (k + 1) - 1 = k /\ sum[1..k] \in Int
    BY <1>1
  <2> QED
    BY <1>7, <1>9, <2>1
<1>12. T = Nat
  <2> HIDE DEF T
  <2>1. T \in SUBSET Nat
    BY DEF T
  <2> QED BY <1>10, <1>11, <2>1, Induction
<1>13. h \in [0..n -> Int]
  BY <1>12
<1>14. \A k \in 1..n : h[k] = h[k - 1] + Amount(s[k])
  <2>1. \A k \in 1..n : k \in 0..n /\ k - 1 \in 0..n
    BY <1>1
  <2> QED
    BY <1>7, <2>1
<1>15. h[0] = base /\ h[n] = sum[1..n]
  BY <1>1, <1>8
<1>16. Sums(h, base, s)
  BY <1>13, <1>14, <1>15 DEF Sums, n
<1> HIDE DEF h
<1> QED
  BY <1>1, <1>5, <1>15, <1>16 DEF n

\* The sum of a sequence with one more.
LEMMA SumOfAppend ==
    ASSUME NEW s \in Seq(EventRecords), NEW e \in EventRecords, NEW base \in Int
    PROVE  Sum(base, s) \in Int /\ Sum(base, Append(s, e)) = Sum(base, s) + Amount(e)
<1> DEFINE n == Len(s)
           r == Append(s, e)
<1>1. /\ n \in Nat /\ r \in Seq(EventRecords) /\ Len(r) = n + 1 /\ r[n + 1] = e
      /\ \A k \in 1..n : r[k] = s[k]
  OBVIOUS
<1>2. PICK h : Sums(h, base, s) /\ Sum(base, s) = h[n]
  BY SumOfBeginnings
<1>3. PICK g : Sums(g, base, r) /\ Sum(base, r) = g[n + 1]
  BY <1>1, SumOfBeginnings
<1> HIDE DEF n, r
<1>4. /\ h \in [0..n -> Int] /\ h[0] = base
      /\ \A k \in 1..n : h[k] = h[k - 1] + Amount(s[k])
  BY <1>2 DEF Sums, n
<1>5. /\ g[0] = base
      /\ \A k \in 1..(n + 1) : g[k] = g[k - 1] + Amount(r[k])
  BY <1>1, <1>3 DEF Sums
<1> DEFINE T == {k \in Nat : k <= n => g[k] = h[k]}
<1>6. 0 \in T
  BY <1>4, <1>5
<1>7. ASSUME NEW k \in T PROVE k + 1 \in T
  <2> SUFFICES ASSUME k + 1 <= n PROVE g[k + 1] = h[k + 1]
    OBVIOUS
  <2>1. k + 1 \in 1..n /\ k + 1 \in 1..(n + 1) /\ (k + 1) - 1 = k /\ g[k] = h[k]
    BY <1>1
  <2> QED
    BY <1>1, <1>4, <1>5, <2>1
<1>8. T = Nat
  <2> HIDE DEF T
  <2>1. T \in SUBSET Nat
    BY DEF T
  <2> QED BY <1>6, <1>7, <2>1, Induction
<1>9. g[n] = h[n] /\ h[n] \in Int
  <2>1. \A k \in Nat : k <= n => g[k] = h[k]
    BY <1>8
  <2>2. n <= n /\ n \in 0..n
    BY <1>1
  <2> QED
    BY <1>1, <1>4, <2>1, <2>2
<1>10. g[n + 1] = g[n] + Amount(e)
  <2>1. n + 1 \in 1..(n + 1) /\ (n + 1) - 1 = n
    BY <1>1
  <2> QED
    BY <1>1, <1>5, <2>1
<1> QED
  BY <1>2, <1>3, <1>9, <1>10 DEF r

\* Without events it is what it began with.
LEMMA SumOfNothing == ASSUME NEW base \in Int PROVE Sum(base, <<>>) = base
<1>1. <<>> \in Seq(EventRecords) /\ Len(<<>>) = 0
  OBVIOUS
<1>2. PICK h : Sums(h, base, <<>>) /\ Sum(base, <<>>) = h[Len(<<>>)]
  BY <1>1, SumOfBeginnings
<1> QED
  BY <1>1, <1>2 DEF Sums
-----------------------------------------------------------------------------
(* What the actions do, field by field.                                    *)
Kinds == {"capture", "snapshot", "dump", "monitor", "listener"}
Started(kind, name, tasks) ==
    /\ DOMAIN prog' = {"kind", "name", "todo", "got", "at", "steady", "prev", "step"}
    /\ prog'.kind = kind /\ prog'.name = name /\ prog'.todo = tasks
    /\ prog'.got = <<>> /\ prog'.at = 0 /\ prog'.steady = Words
    /\ prog'.prev = Nothing /\ prog'.step = "read"
    /\ bounds'.runs = bounds.runs + 1
ProgBut(changed) ==
    /\ DOMAIN prog' = DOMAIN prog
    /\ \A x \in DOMAIN prog : x \notin changed => prog'[x] = prog[x]
FilesBut(changed) ==
    /\ DOMAIN files' = DOMAIN files
    /\ \A x \in DOMAIN files : x \notin changed => files'[x] = files[x]
BoundsKept ==
    /\ DOMAIN bounds' = DOMAIN bounds /\ bounds'.kind = bounds.kind
    /\ bounds'.runs \in {bounds.runs, bounds.runs + 1}
Kept == FilesBut({}) /\ truth' = truth /\ game' = game

\* A program starts when none runs.
LEMMA BeginDoes ==
    ASSUME MemoryTypes, NEW kind, NEW name, NEW tasks, Begin(kind, name, tasks)
    PROVE  prog = Idle /\ Started(kind, name, tasks) /\ BoundsKept /\ bounds.kind = kind
BY DEF MemoryTypes, Begin, Started, BoundsKept, Nothing

\* Bytes are read, or are not.
LEMMA GotDoes ==
    ASSUME MemoryTypes, ProgramTypes, prog.kind \in Kinds, NEW key, NEW bytes, Got(key, bytes)
    PROVE  /\ ProgBut({"todo", "got"}) /\ BoundsKept /\ bounds'.runs = bounds.runs
           /\ prog'.todo = Tail(prog.todo) /\ prog'.got = Put(prog.got, key, bytes)
<1>1. DOMAIN prog = {"kind", "name", "todo", "got", "at", "steady", "prev", "step"}
  BY DEF ProgramTypes, Kinds
<1>2. prog' = [prog EXCEPT !.todo = Tail(@), !.got = Put(@, key, bytes)]
  BY DEF Got
<1>3. bounds' = [bounds EXCEPT !.fails = @ + IF bytes = Nothing THEN 1 ELSE 0]
  BY DEF Got
<1>4. BoundsKept /\ bounds'.runs = bounds.runs
  BY <1>3 DEF MemoryTypes, BoundsKept
<1> QED
  BY <1>1, <1>2, <1>4 DEF ProgBut

\* Which kind of program an action belongs to, and what it leaves alone.
LEMMA StartCaptureDoes ==
    ASSUME MemoryTypes, NEW n \in Names, NEW r \in Ranges, StartCapture(n, r)
    PROVE  /\ Started("capture", n, FlattenSeq([i \in DOMAIN r |-> Pieces(r[i][1], r[i][2])]))
           /\ BoundsKept /\ FilesBut({}) /\ game' = game
           /\ truth' = [truth EXCEPT ![n] = Nothing]
<1>1. /\ Begin("capture", n, FlattenSeq([i \in DOMAIN r |-> Pieces(r[i][1], r[i][2])]))
      /\ truth' = [truth EXCEPT ![n] = Nothing]
      /\ game' = game /\ files' = files
  BY DEF StartCapture
<1>2. FilesBut({})
  BY <1>1 DEF FilesBut
<1> QED
  BY <1>1, <1>2, BeginDoes

\* The chunk is written at once, into the file of the name.
LEMMA WriteChunkDoes ==
    ASSUME MemoryTypes, ProgramTypes, WriteChunk
    PROVE  LET p == Head(prog.todo) IN
           /\ prog.kind = "capture" /\ prog.todo # <<>>
           /\ FilesBut({"captures"}) /\ DOMAIN files'.captures = DOMAIN files.captures
           /\ \A n \in Names : n # prog.name => files'.captures[n] = files.captures[n]
           /\ prog.name \in Names =>
                 files'.captures[prog.name] =
                    Put(files.captures[prog.name], p[1], Bytes(p[1], p[2]))
           /\ ProgBut({"todo", "got"})
           /\ prog'.todo = Tail(prog.todo) /\ prog'.got = Append(prog.got, p[1])
           /\ game' = game /\ truth' = truth /\ BoundsKept
<1> DEFINE p == Head(prog.todo)
           new == Put(files.captures[prog.name], p[1], Bytes(p[1], p[2]))
<1>1. /\ prog.kind = "capture" /\ prog.todo # <<>>
      /\ files' = [files EXCEPT !.captures[prog.name] = new]
      /\ prog' = [prog EXCEPT !.todo = Tail(@), !.got = Append(@, Head(prog.todo)[1])]
      /\ game' = game /\ truth' = truth /\ bounds' = bounds
  BY DEF WriteChunk
<1> HIDE DEF new
<1>2. /\ DOMAIN files = {"captures", "snapshots", "dumps", "diffs", "garage", "heard"}
      /\ DOMAIN files.captures = Names
      /\ DOMAIN prog = {"kind", "name", "todo", "got", "at", "steady", "prev", "step"}
  BY <1>1 DEF MemoryTypes, ProgramTypes
<1>3. files'.captures = [files.captures EXCEPT ![prog.name] = new] /\ FilesBut({"captures"})
  BY <1>1, <1>2 DEF FilesBut
<1>4. /\ ProgBut({"todo", "got"})
      /\ prog'.todo = Tail(prog.todo) /\ prog'.got = Append(prog.got, p[1])
  BY <1>1, <1>2 DEF ProgBut
<1>5. BoundsKept
  BY <1>1 DEF BoundsKept
<1> QED
  BY <1>1, <1>2, <1>3, <1>4, <1>5 DEF new

\* What stood still is known, unless chunks of an earlier capture are there.
LEMMA EndCaptureDoes ==
    ASSUME MemoryTypes, ProgramTypes, EndCapture
    PROVE  /\ prog.kind = "capture" /\ prog.todo = <<>> /\ prog' = Idle
           /\ FilesBut({}) /\ game' = game /\ BoundsKept
           /\ truth' = [truth EXCEPT ![prog.name] =
                 IF DOMAIN files.captures[prog.name] = ToSet(prog.got) THEN Known ELSE Nothing]
BY DEF EndCapture, End, FilesBut, BoundsKept

\* The four steps of a snapshot.
LEMMA SnapshotsDo ==
    ASSUME MemoryTypes, ProgramTypes
    PROVE  /\ \A l \in Labels : StartSnapshot(l) =>
                 Started("snapshot", l, Regions) /\ BoundsKept /\ Kept
           /\ FollowPointer => /\ prog.kind = "snapshot" /\ ProgBut({"at"})
                               /\ prog.at = 0
                               /\ prog'.at = IF Plausible(game[0]) THEN game[0] ELSE Fallback
                               /\ BoundsKept /\ Kept
           /\ ReadRegion =>
                 /\ prog.kind = "snapshot" /\ prog.todo # <<>> /\ ProgBut({"todo", "got"})
                 /\ prog'.todo = Tail(prog.todo)
                 /\ \E bytes :
                       LET r == Head(prog.todo)
                           from == IF r[1] = "profile_data" THEN prog.at ELSE r[2] IN
                       /\ bytes \in Reading(from, Least(r[3], Cap))
                       /\ r[1] = "profile_data" => prog.at # 0
                       /\ prog'.got = Put(prog.got, r[1], bytes)
                 /\ BoundsKept /\ Kept
           /\ SaveSnapshot =>
                 /\ prog.kind = "snapshot" /\ prog.todo = <<>> /\ prog' = Idle
                 /\ FilesBut({"snapshots"})
                 /\ files'.snapshots = [files.snapshots EXCEPT ![prog.name] = Saved]
                 /\ truth' = [truth EXCEPT ![prog.name] = Known]
                 /\ game' = game /\ BoundsKept
<1>1. ASSUME NEW l \in Labels, StartSnapshot(l)
      PROVE  Started("snapshot", l, Regions) /\ BoundsKept /\ Kept
  <2>1. Begin("snapshot", l, Regions) /\ Kept
    BY <1>1 DEF StartSnapshot, Kept, FilesBut
  <2> QED
    BY <2>1, BeginDoes
<1>2. prog.kind = "snapshot" =>
         DOMAIN prog = {"kind", "name", "todo", "got", "at", "steady", "prev", "step"}
  BY DEF ProgramTypes
<1>3. FollowPointer => /\ prog.kind = "snapshot" /\ ProgBut({"at"})
                       /\ prog.at = 0
                       /\ prog'.at = IF Plausible(game[0]) THEN game[0] ELSE Fallback
                       /\ BoundsKept /\ Kept
  BY <1>2 DEF FollowPointer, ProgBut, BoundsKept, Kept, FilesBut
<1>4. ASSUME ReadRegion
      PROVE  /\ prog.kind = "snapshot" /\ prog.todo # <<>> /\ ProgBut({"todo", "got"})
             /\ prog'.todo = Tail(prog.todo)
             /\ \E bytes :
                   LET r == Head(prog.todo)
                       from == IF r[1] = "profile_data" THEN prog.at ELSE r[2] IN
                   /\ bytes \in Reading(from, Least(r[3], Cap))
                   /\ r[1] = "profile_data" => prog.at # 0
                   /\ prog'.got = Put(prog.got, r[1], bytes)
             /\ BoundsKept /\ Kept
  <2> DEFINE r == Head(prog.todo)
             from == IF r[1] = "profile_data" THEN prog.at ELSE r[2]
  <2>1. /\ prog.kind = "snapshot" /\ prog.todo # <<>>
        /\ r[1] = "profile_data" => prog.at # 0
        /\ \E bytes \in Reading(from, Least(r[3], Cap)) : Got(r[1], bytes)
        /\ game' = game /\ files' = files /\ truth' = truth
    BY <1>4 DEF ReadRegion
  <2>2. PICK bytes \in Reading(from, Least(r[3], Cap)) : Got(r[1], bytes)
    BY <2>1
  <2>3. prog.kind \in Kinds
    BY <2>1 DEF Kinds
  <2> HIDE DEF r, from
  <2>4. /\ ProgBut({"todo", "got"}) /\ BoundsKept
        /\ prog'.todo = Tail(prog.todo) /\ prog'.got = Put(prog.got, r[1], bytes)
    BY <2>2, <2>3, GotDoes
  <2>5. Kept
    BY <2>1 DEF Kept, FilesBut
  <2> QED
    BY <2>1, <2>2, <2>4, <2>5 DEF r, from
<1>5. SaveSnapshot =>
         /\ prog.kind = "snapshot" /\ prog.todo = <<>> /\ prog' = Idle
         /\ FilesBut({"snapshots"})
         /\ files'.snapshots = [files.snapshots EXCEPT ![prog.name] = Saved]
         /\ truth' = [truth EXCEPT ![prog.name] = Known]
         /\ game' = game /\ BoundsKept
  BY DEF SaveSnapshot, End, MemoryTypes, FilesBut, BoundsKept
<1> QED
  BY <1>1, <1>3, <1>4, <1>5

\* The four steps of a series of dumps.
LEMMA DumpsDo ==
    ASSUME MemoryTypes, ProgramTypes
    PROVE  /\ StartSeries => Started("dump", "dump", Pieces(0, Size)) /\ BoundsKept /\ Kept
           /\ DumpChunk =>
                 /\ prog.kind = "dump" /\ prog.todo # <<>> /\ ProgBut({"todo", "got"})
                 /\ prog'.todo = Tail(prog.todo)
                 /\ \E bytes : LET p == Head(prog.todo) IN
                       /\ bytes \in Reading(p[1], p[2])
                       /\ prog'.got = Put(prog.got, p[1], bytes)
                 /\ BoundsKept /\ bounds'.runs = bounds.runs /\ Kept
           /\ SaveDump =>
                 /\ prog.kind = "dump" /\ prog.todo = <<>> /\ prog.step = "read"
                 /\ ProgBut({"step"}) /\ prog'.step = "compare"
                 /\ FilesBut({"dumps"})
                 /\ files'.dumps = Put(files.dumps, prog.at,
                                      [run |-> bounds.runs, chunks |-> prog.got])
                 /\ truth' = truth /\ game' = game /\ bounds' = bounds /\ BoundsKept
           /\ SaveChanges =>
                 /\ prog.kind = "dump" /\ prog.step = "compare"
                 /\ \/ prog' = Idle
                    \/ /\ ProgBut({"todo", "got", "at", "prev", "step"})
                       /\ prog'.todo = Pieces(0, Size) /\ prog'.got = <<>>
                       /\ prog'.at = prog.at + 1 /\ prog'.prev = prog.got /\ prog'.step = "read"
                 /\ FilesBut({"diffs"})
                 /\ files'.diffs = IF prog.prev = Nothing THEN files.diffs
                                   ELSE Put(files.diffs, prog.at,
                                            [run |-> bounds.runs,
                                             rows |-> Changes(prog.prev, prog.got)])
                 /\ truth' = truth /\ game' = game /\ bounds' = bounds /\ BoundsKept
<1>0. /\ DOMAIN files = {"captures", "snapshots", "dumps", "diffs", "garage", "heard"}
      /\ prog.kind = "dump" =>
            DOMAIN prog = {"kind", "name", "todo", "got", "at", "steady", "prev", "step"}
  BY DEF MemoryTypes, ProgramTypes
<1>1. ASSUME StartSeries PROVE Started("dump", "dump", Pieces(0, Size)) /\ BoundsKept /\ Kept
  <2>1. Begin("dump", "dump", Pieces(0, Size)) /\ Kept
    BY <1>1 DEF StartSeries, Kept, FilesBut
  <2> QED
    BY <2>1, BeginDoes
<1>2. ASSUME DumpChunk
      PROVE  /\ prog.kind = "dump" /\ prog.todo # <<>> /\ ProgBut({"todo", "got"})
             /\ prog'.todo = Tail(prog.todo)
             /\ \E bytes : LET p == Head(prog.todo) IN
                   /\ bytes \in Reading(p[1], p[2])
                   /\ prog'.got = Put(prog.got, p[1], bytes)
             /\ BoundsKept /\ bounds'.runs = bounds.runs /\ Kept
  <2> DEFINE p == Head(prog.todo)
  <2>1. /\ prog.kind = "dump" /\ prog.todo # <<>>
        /\ \E bytes \in Reading(p[1], p[2]) : Got(p[1], bytes)
        /\ game' = game /\ files' = files /\ truth' = truth
    BY <1>2 DEF DumpChunk
  <2>2. PICK bytes \in Reading(p[1], p[2]) : Got(p[1], bytes)
    BY <2>1
  <2>3. prog.kind \in Kinds
    BY <2>1 DEF Kinds
  <2> HIDE DEF p
  <2>4. /\ ProgBut({"todo", "got"}) /\ BoundsKept /\ bounds'.runs = bounds.runs
        /\ prog'.todo = Tail(prog.todo) /\ prog'.got = Put(prog.got, p[1], bytes)
    BY <2>2, <2>3, GotDoes
  <2>5. Kept
    BY <2>1 DEF Kept, FilesBut
  <2> QED
    BY <2>1, <2>2, <2>4, <2>5 DEF p
<1>3. ASSUME SaveDump
      PROVE  /\ prog.kind = "dump" /\ prog.todo = <<>> /\ prog.step = "read"
             /\ ProgBut({"step"}) /\ prog'.step = "compare"
             /\ FilesBut({"dumps"})
             /\ files'.dumps = Put(files.dumps, prog.at,
                                  [run |-> bounds.runs, chunks |-> prog.got])
             /\ truth' = truth /\ game' = game /\ bounds' = bounds /\ BoundsKept
  <2> DEFINE new == Put(files.dumps, prog.at, [run |-> bounds.runs, chunks |-> prog.got])
  <2>1. /\ prog.kind = "dump" /\ prog.todo = <<>> /\ prog.step = "read"
        /\ prog' = [prog EXCEPT !.step = "compare"]
        /\ files' = [files EXCEPT !.dumps = new]
        /\ game' = game /\ truth' = truth /\ bounds' = bounds
    BY <1>3 DEF SaveDump
  <2> HIDE DEF new
  <2>2. FilesBut({"dumps"}) /\ files'.dumps = new
    BY <1>0, <2>1 DEF FilesBut
  <2>3. ProgBut({"step"}) /\ prog'.step = "compare"
    BY <1>0, <2>1 DEF ProgBut
  <2> QED
    BY <2>1, <2>2, <2>3 DEF BoundsKept, new
<1>4. ASSUME SaveChanges
      PROVE  /\ prog.kind = "dump" /\ prog.step = "compare"
             /\ \/ prog' = Idle
                \/ /\ ProgBut({"todo", "got", "at", "prev", "step"})
                   /\ prog'.todo = Pieces(0, Size) /\ prog'.got = <<>>
                   /\ prog'.at = prog.at + 1 /\ prog'.prev = prog.got /\ prog'.step = "read"
             /\ FilesBut({"diffs"})
             /\ files'.diffs = IF prog.prev = Nothing THEN files.diffs
                               ELSE Put(files.diffs, prog.at,
                                        [run |-> bounds.runs,
                                         rows |-> Changes(prog.prev, prog.got)])
             /\ truth' = truth /\ game' = game /\ bounds' = bounds /\ BoundsKept
  <2> DEFINE new == Put(files.diffs, prog.at,
                        [run |-> bounds.runs, rows |-> Changes(prog.prev, prog.got)])
             pieces == Pieces(0, Size)
  <2>1. /\ prog.kind = "dump" /\ prog.step = "compare"
        /\ files' = [files EXCEPT !.diffs = IF prog.prev = Nothing THEN @ ELSE new]
        /\ \/ prog' = Idle
           \/ prog' = [prog EXCEPT !.todo = pieces, !.got = Nothing, !.at = @ + 1,
                                   !.prev = prog.got, !.step = "read"]
        /\ game' = game /\ truth' = truth /\ bounds' = bounds
    BY <1>4 DEF SaveChanges
  <2> HIDE DEF new, pieces
  <2>2. FilesBut({"diffs"}) /\ files'.diffs = IF prog.prev = Nothing THEN files.diffs ELSE new
    BY <1>0, <2>1 DEF FilesBut
  <2>3. \/ prog' = Idle
        \/ /\ ProgBut({"todo", "got", "at", "prev", "step"})
           /\ prog'.todo = pieces /\ prog'.got = <<>>
           /\ prog'.at = prog.at + 1 /\ prog'.prev = prog.got /\ prog'.step = "read"
    BY <1>0, <2>1 DEF ProgBut, Nothing
  <2> QED
    BY <2>1, <2>2, <2>3 DEF BoundsKept, new, pieces
<1> QED
  BY <1>1, <1>2, <1>3, <1>4

\* What a pass leaves for the next.
PassEnded(slots) ==
    /\ ProgBut({"todo", "got", "steady"})
    /\ prog'.todo = slots /\ prog'.got = <<>> /\ prog'.steady = Words

\* The steps of the monitor and of the listener.
LEMMA WatchersDo ==
    ASSUME MemoryTypes, ProgramTypes
    PROVE  /\ StartMonitor =>
                 /\ Started("monitor", "garage", GarageSlots) /\ BoundsKept
                 /\ FilesBut({"garage"}) /\ files'.garage = Nothing
                 /\ game' = game /\ truth' = truth
           /\ StartListening =>
                 /\ Started("listener", "events", Heard) /\ BoundsKept
                 /\ FilesBut({"heard"}) /\ files'.heard = Nothing
                 /\ game' = game /\ truth' = truth
           /\ ReadSlot \/ Hear =>
                 /\ ReadSlot => prog.kind = "monitor"
                 /\ Hear => prog.kind = "listener"
                 /\ prog.todo # <<>> /\ ProgBut({"todo", "got"})
                 /\ prog'.todo = Tail(prog.todo)
                 /\ prog'.got = Append(prog.got, game[Head(prog.todo)])
                 /\ BoundsKept /\ Kept
           /\ EndPass =>
                 /\ prog.kind = "monitor" /\ prog.todo = <<>> /\ PassEnded(GarageSlots)
                 /\ FilesBut({"garage"}) /\ game' = game /\ truth' = truth /\ BoundsKept
           /\ EndPoll =>
                 /\ prog.kind = "listener" /\ prog.todo = <<>> /\ PassEnded(Heard)
                 /\ FilesBut({"heard"}) /\ game' = game /\ truth' = truth /\ BoundsKept
<1>1. /\ DOMAIN files = {"captures", "snapshots", "dumps", "diffs", "garage", "heard"}
      /\ prog.kind \in {"monitor", "listener"} =>
            DOMAIN prog = {"kind", "name", "todo", "got", "at", "steady", "prev", "step"}
  BY DEF MemoryTypes, ProgramTypes
<1>2. ASSUME StartMonitor
      PROVE  /\ Started("monitor", "garage", GarageSlots) /\ BoundsKept
             /\ FilesBut({"garage"}) /\ files'.garage = Nothing
             /\ game' = game /\ truth' = truth
  <2>1. Begin("monitor", "garage", GarageSlots)
    BY <1>2 DEF StartMonitor
  <2>2. /\ FilesBut({"garage"}) /\ files'.garage = Nothing
        /\ game' = game /\ truth' = truth
    BY <1>1, <1>2 DEF StartMonitor, FilesBut
  <2> QED
    BY <2>1, <2>2, BeginDoes
<1>3. ASSUME StartListening
      PROVE  /\ Started("listener", "events", Heard) /\ BoundsKept
             /\ FilesBut({"heard"}) /\ files'.heard = Nothing
             /\ game' = game /\ truth' = truth
  <2>1. Begin("listener", "events", Heard)
    BY <1>3 DEF StartListening
  <2>2. /\ FilesBut({"heard"}) /\ files'.heard = Nothing
        /\ game' = game /\ truth' = truth
    BY <1>1, <1>3 DEF StartListening, FilesBut
  <2> QED
    BY <2>1, <2>2, BeginDoes
<1>4. ASSUME ReadSlot \/ Hear
      PROVE  /\ ReadSlot => prog.kind = "monitor"
             /\ Hear => prog.kind = "listener"
             /\ prog.todo # <<>> /\ ProgBut({"todo", "got"})
             /\ prog'.todo = Tail(prog.todo)
             /\ prog'.got = Append(prog.got, game[Head(prog.todo)])
             /\ BoundsKept /\ Kept
  <2>1. /\ prog.kind \in {"monitor", "listener"} /\ prog.todo # <<>>
        /\ prog' = [prog EXCEPT !.todo = Tail(@), !.got = Append(@, game[Head(prog.todo)])]
        /\ files' = files /\ truth' = truth /\ game' = game /\ bounds' = bounds
    BY <1>4 DEF ReadSlot, Hear
  <2>2. (ReadSlot => prog.kind = "monitor") /\ (Hear => prog.kind = "listener")
    BY DEF ReadSlot, Hear
  <2>3. /\ ProgBut({"todo", "got"}) /\ prog'.todo = Tail(prog.todo)
        /\ prog'.got = Append(prog.got, game[Head(prog.todo)])
    BY <1>1, <2>1 DEF ProgBut
  <2> QED
    BY <2>1, <2>2, <2>3 DEF BoundsKept, Kept, FilesBut
<1>5. ASSUME EndPass
      PROVE  /\ prog.kind = "monitor" /\ prog.todo = <<>> /\ PassEnded(GarageSlots)
             /\ FilesBut({"garage"}) /\ game' = game /\ truth' = truth /\ BoundsKept
  <2>1. PICK new : files' = [files EXCEPT !.garage = new]
    BY <1>5 DEF EndPass
  <2>2. /\ prog.kind = "monitor" /\ prog.todo = <<>>
        /\ prog' = [prog EXCEPT !.todo = GarageSlots, !.got = Nothing, !.steady = Words]
        /\ game' = game /\ truth' = truth /\ bounds' = bounds
    BY <1>5 DEF EndPass
  <2>3. FilesBut({"garage"})
    BY <1>1, <2>1 DEF FilesBut
  <2>4. PassEnded(GarageSlots)
    BY <1>1, <2>2 DEF PassEnded, ProgBut, Nothing
  <2> QED
    BY <2>2, <2>3, <2>4 DEF BoundsKept
<1>6. ASSUME EndPoll
      PROVE  /\ prog.kind = "listener" /\ prog.todo = <<>> /\ PassEnded(Heard)
             /\ FilesBut({"heard"}) /\ game' = game /\ truth' = truth /\ BoundsKept
  <2>1. PICK new : files' = [files EXCEPT !.heard = new]
    BY <1>6 DEF EndPoll
  <2>2. /\ prog.kind = "listener" /\ prog.todo = <<>>
        /\ prog' = [prog EXCEPT !.todo = Heard, !.got = Nothing, !.steady = Words]
        /\ game' = game /\ truth' = truth /\ bounds' = bounds
    BY <1>6 DEF EndPoll
  <2>3. FilesBut({"heard"})
    BY <1>1, <2>1 DEF FilesBut
  <2>4. PassEnded(Heard)
    BY <1>1, <2>2 DEF PassEnded, ProgBut, Nothing
  <2> QED
    BY <2>2, <2>3, <2>4 DEF BoundsKept
<1> QED
  BY <1>2, <1>3, <1>4, <1>5, <1>6

\* A write of the game: the word is no longer steady.
Played(w, v) ==
    /\ game' = [game EXCEPT ![w] = v]
    /\ FilesBut({}) /\ truth' = truth /\ BoundsKept /\ bounds'.runs = bounds.runs
    /\ prog.kind = "none" => prog' = Idle
    /\ prog.kind # "none" => ProgBut({"steady"}) /\ prog'.steady = prog.steady \ {w}

\* Whatever the game writes, it is a natural number to a word.
LEMMA PlayDoes ==
    ASSUME MemoryTypes, ProgramTypes,
           \/ \E w \in Free[bounds.kind], v \in Values : Play(w, v)
           \/ bounds.kind = "snapshot" /\ \E p \in Profiles \cup {0} : Play(0, p)
    PROVE  \E w \in Words, v \in Nat : Played(w, v)
<1>1. PICK w \in Words, v \in Nat : Play(w, v)
  <2>1. bounds.kind \in DOMAIN Free
    BY DEF MemoryTypes
  <2>2. Free[bounds.kind] \subseteq Words
    BY <2>1, MemoryAssumption DEF Range
  <2>3. Values \subseteq Nat /\ Profiles \subseteq Words /\ Words \subseteq Nat
    BY MemoryAssumption DEF Words
  <2>4. 0 \in Words
    BY MemoryAssumption DEF Words
  <2>5. CASE \E ww \in Free[bounds.kind], vv \in Values : Play(ww, vv)
    BY <2>2, <2>3, <2>5
  <2>6. CASE \E p \in Profiles \cup {0} : Play(0, p)
    BY <2>3, <2>4, <2>6
  <2> QED
    BY <2>5, <2>6
<1>2. /\ game' = [game EXCEPT ![w] = v]
      /\ prog' = IF prog = Idle THEN Idle ELSE [prog EXCEPT !.steady = @ \ {w}]
      /\ bounds' = [bounds EXCEPT !.writes = @ + 1]
      /\ files' = files /\ truth' = truth
  BY <1>1 DEF Play
<1>3. FilesBut({}) /\ BoundsKept /\ bounds'.runs = bounds.runs
  BY <1>2 DEF FilesBut, BoundsKept, MemoryTypes
<1>4. prog.kind = "none" => prog' = Idle
  BY <1>2 DEF ProgramTypes
<1>5. prog.kind # "none" => ProgBut({"steady"}) /\ prog'.steady = prog.steady \ {w}
  BY <1>2 DEF ProgramTypes, Idle, ProgBut
<1> QED
  BY <1>2, <1>3, <1>4, <1>5 DEF Played
-----------------------------------------------------------------------------
\* It holds at the start.
LEMMA CaptureInitInv == CaptureInit => CaptureInv
<1> SUFFICES ASSUME CaptureInit PROVE CaptureInv
  OBVIOUS
<1>1. /\ game = [w \in Words |-> IF w = 0 THEN Min(Profiles) ELSE 0]
      /\ files = [captures |-> [n \in Names |-> Nothing],
                  snapshots |-> [l \in Labels |-> Nothing],
                  dumps |-> <<>>, diffs |-> <<>>, garage |-> Nothing, heard |-> Nothing]
      /\ prog = Idle
      /\ truth = [n \in Names \cup Labels |-> Nothing]
      /\ bounds \in [writes : {0}, fails : {0}, runs : {0}, kind : DOMAIN Free]
  BY DEF CaptureInit
<1>2. Min(Profiles) \in Nat
  <2>1. Profiles \in SUBSET Words /\ Words \subseteq Nat /\ Profiles # {} /\ Words = 0..(Size - 1)
    BY MemoryAssumption DEF Words
  <2>2. IsFiniteSet(0..(Size - 1))
    <3>1. 0 \in Int /\ Size - 1 \in Int
      BY MemoryAssumption
    <3> QED
      BY ONLY <3>1, FS_Interval
  <2>3. IsFiniteSet(Profiles)
    BY ONLY <2>1, <2>2, FS_Subset
  <2> QED
    BY <2>1, <2>3, LeastAndGreatest
<1>3. MemoryTypes
  BY <1>1, <1>2 DEF MemoryTypes
<1>4. prog.kind = "none"
  BY <1>1 DEF Idle
<1>5. ProgramTypes
  BY <1>1, <1>4 DEF ProgramTypes
<1>6. ChunkFiles /\ CapturesTrue /\ SnapshotsTrue
  BY <1>1, FS_EmptySet DEF ChunkFiles, CapturesTrue, SnapshotsTrue, Nothing
<1>7. Capturing /\ Snapshotting /\ Dumping /\ SeriesGoesOn /\ Watching
  BY <1>4 DEF Capturing, Snapshotting, Dumping, SeriesGoesOn, Watching
<1>8. SeriesRight
  BY <1>1 DEF SeriesRight, Marked, Neighbours, Complete
<1>9. LinesAddUp /\ EventsAddUp
  BY <1>1 DEF LinesAddUp, EventsAddUp
<1> QED
  BY <1>3, <1>5, <1>6, <1>7, <1>8, <1>9 DEF CaptureInv

\* The kinds of steps, for the parts of the invariant that they do not concern.
LEMMA TypesKept ==
    ASSUME MemoryTypes, ProgramTypes, BoundsKept, game' = game,
           NEW changed, FilesBut(changed),
           "captures" \notin changed, "snapshots" \notin changed,
           DOMAIN truth' = DOMAIN truth
    PROVE  MemoryTypes'
BY DEF MemoryTypes, BoundsKept, FilesBut

\* So does one that starts a program.
LEMMA StartedTypes ==
    ASSUME NEW kind \in Kinds, NEW name, NEW tasks, Started(kind, name, tasks)
    PROVE  ProgramTypes'
BY DEF Started, ProgramTypes, Kinds

\* And one of a program that goes on.
LEMMA GoesOnTypes ==
    ASSUME ProgramTypes, prog.kind \in Kinds, NEW changed, ProgBut(changed),
           "kind" \notin changed, prog'.steady \subseteq Words
    PROVE  ProgramTypes' /\ prog'.kind = prog.kind
BY DEF ProgBut, ProgramTypes, Kinds

\* And the end of a program.
LEMMA IdleTypes == ASSUME prog' = Idle PROVE ProgramTypes' /\ prog'.kind = "none"
BY DEF ProgramTypes, Idle

\* Every step keeps the types.
LEMMA TypesStep ==
    ASSUME MemoryTypes, ProgramTypes, CaptureNext
    PROVE  MemoryTypes' /\ ProgramTypes'
<1> USE DEF Kinds
<1>0. prog.kind # "none" => prog.steady \subseteq Words
  BY DEF ProgramTypes
<1>1. ASSUME NEW n \in Names, NEW r \in Ranges, StartCapture(n, r)
      PROVE  MemoryTypes' /\ ProgramTypes'
  <2>1. /\ Started("capture", n, FlattenSeq([i \in DOMAIN r |-> Pieces(r[i][1], r[i][2])]))
        /\ BoundsKept /\ FilesBut({}) /\ game' = game
        /\ truth' = [truth EXCEPT ![n] = Nothing]
    BY <1>1, StartCaptureDoes
  <2> QED
    BY <2>1, TypesKept, StartedTypes
<1>2. ASSUME WriteChunk PROVE MemoryTypes' /\ ProgramTypes'
  <2>1. /\ prog.kind = "capture" /\ ProgBut({"todo", "got"})
        /\ FilesBut({"captures"}) /\ DOMAIN files'.captures = DOMAIN files.captures
        /\ game' = game /\ truth' = truth /\ BoundsKept
    BY <1>2, WriteChunkDoes
  <2>2. MemoryTypes'
    BY <2>1 DEF MemoryTypes, BoundsKept, FilesBut
  <2>3. prog'.steady = prog.steady
    BY <2>1 DEF ProgBut, ProgramTypes
  <2> QED
    BY <1>0, <2>1, <2>2, <2>3, GoesOnTypes
<1>3. ASSUME EndCapture PROVE MemoryTypes' /\ ProgramTypes'
  <2>1. /\ prog' = Idle /\ FilesBut({}) /\ game' = game /\ BoundsKept
        /\ DOMAIN truth' = DOMAIN truth
    BY <1>3, EndCaptureDoes
  <2> QED
    BY <2>1, TypesKept, IdleTypes
<1>4. ASSUME NEW l \in Labels, StartSnapshot(l) PROVE MemoryTypes' /\ ProgramTypes'
  <2>1. Started("snapshot", l, Regions) /\ BoundsKept /\ Kept
    BY <1>4, SnapshotsDo
  <2> QED
    BY <2>1, TypesKept, StartedTypes DEF Kept
<1>5. ASSUME FollowPointer \/ ReadRegion PROVE MemoryTypes' /\ ProgramTypes'
  <2>1. prog.kind = "snapshot" /\ ProgBut({"at", "todo", "got"}) /\ BoundsKept /\ Kept
    BY <1>5, SnapshotsDo DEF ProgBut
  <2>2. prog'.steady = prog.steady
    BY <2>1 DEF ProgBut, ProgramTypes
  <2> QED
    BY <1>0, <2>1, <2>2, TypesKept, GoesOnTypes DEF Kept
<1>6. ASSUME SaveSnapshot PROVE MemoryTypes' /\ ProgramTypes'
  <2>1. /\ prog' = Idle /\ FilesBut({"snapshots"}) /\ game' = game /\ BoundsKept
        /\ DOMAIN files'.snapshots = DOMAIN files.snapshots
        /\ DOMAIN truth' = DOMAIN truth
    BY <1>6, SnapshotsDo
  <2>2. MemoryTypes'
    BY <2>1 DEF MemoryTypes, BoundsKept, FilesBut
  <2> QED
    BY <2>1, <2>2, IdleTypes
<1>7. ASSUME StartSeries PROVE MemoryTypes' /\ ProgramTypes'
  <2>1. Started("dump", "dump", Pieces(0, Size)) /\ BoundsKept /\ Kept
    BY <1>7, DumpsDo
  <2> QED
    BY <2>1, TypesKept, StartedTypes DEF Kept
<1>8. ASSUME DumpChunk PROVE MemoryTypes' /\ ProgramTypes'
  <2>1. prog.kind = "dump" /\ ProgBut({"todo", "got"}) /\ BoundsKept /\ Kept
    BY <1>8, DumpsDo
  <2>2. prog'.steady = prog.steady
    BY <2>1 DEF ProgBut, ProgramTypes
  <2> QED
    BY <1>0, <2>1, <2>2, TypesKept, GoesOnTypes DEF Kept
<1>9. ASSUME SaveDump \/ SaveChanges PROVE MemoryTypes' /\ ProgramTypes'
  <2>1. /\ prog.kind = "dump"
        /\ prog' = Idle \/ ProgBut({"todo", "got", "at", "prev", "step"})
        /\ FilesBut({"dumps", "diffs"}) /\ game' = game /\ BoundsKept /\ truth' = truth
    BY <1>9, DumpsDo DEF FilesBut, ProgBut
  <2>2. ProgBut({"todo", "got", "at", "prev", "step"}) => prog'.steady = prog.steady
    BY <2>1 DEF ProgBut, ProgramTypes
  <2> QED
    BY <1>0, <2>1, <2>2, TypesKept, IdleTypes, GoesOnTypes
<1>10. ASSUME StartMonitor \/ StartListening PROVE MemoryTypes' /\ ProgramTypes'
  <2>1. /\ Started("monitor", "garage", GarageSlots) \/ Started("listener", "events", Heard)
        /\ BoundsKept /\ FilesBut({"garage", "heard"}) /\ game' = game /\ truth' = truth
    BY <1>10, WatchersDo DEF FilesBut
  <2> QED
    BY <2>1, TypesKept, StartedTypes
<1>11. ASSUME ReadSlot \/ Hear PROVE MemoryTypes' /\ ProgramTypes'
  <2>1. prog.kind \in {"monitor", "listener"} /\ ProgBut({"todo", "got"}) /\ BoundsKept /\ Kept
    BY <1>11, WatchersDo
  <2>2. prog'.steady = prog.steady
    BY <2>1 DEF ProgBut, ProgramTypes
  <2> QED
    BY <1>0, <2>1, <2>2, TypesKept, GoesOnTypes DEF Kept
<1>12. ASSUME EndPass \/ EndPoll PROVE MemoryTypes' /\ ProgramTypes'
  <2>1. /\ prog.kind \in {"monitor", "listener"}
        /\ PassEnded(GarageSlots) \/ PassEnded(Heard)
        /\ FilesBut({"garage", "heard"}) /\ game' = game /\ truth' = truth /\ BoundsKept
    BY <1>12, WatchersDo DEF FilesBut
  <2> QED
    BY <2>1, TypesKept, GoesOnTypes DEF PassEnded
<1>13. ASSUME Abort PROVE MemoryTypes' /\ ProgramTypes'
  <2>1. prog' = Idle /\ Kept /\ BoundsKept
    BY <1>13 DEF Abort, End, Kept, FilesBut, BoundsKept
  <2> QED
    BY <2>1, TypesKept, IdleTypes DEF Kept
<1>14. ASSUME NEW w \in Words, NEW v \in Nat, Played(w, v) PROVE MemoryTypes' /\ ProgramTypes'
  <2>1. MemoryTypes'
    BY <1>14 DEF Played, MemoryTypes, BoundsKept, FilesBut
  <2>2. CASE prog.kind = "none"
    BY <1>14, <2>1, <2>2, IdleTypes DEF Played
  <2>3. CASE prog.kind # "none"
    <3>1. prog.kind \in Kinds
      BY <2>3 DEF ProgramTypes
    <3> QED
      BY <1>0, <1>14, <2>1, <2>3, <3>1, GoesOnTypes DEF Played
  <2> QED
    BY <2>2, <2>3
<1> QED
  BY <1>1, <1>2, <1>3, <1>4, <1>5, <1>6, <1>7, <1>8, <1>9, <1>10, <1>11, <1>12, <1>13, <1>14,
     PlayDoes DEF CaptureNext
-----------------------------------------------------------------------------
(* The programs share no files; what one does leaves the others' alone.    *)
CaptureStep == (\E n \in Names, r \in Ranges : StartCapture(n, r)) \/ WriteChunk \/ EndCapture
SnapshotStep == (\E l \in Labels : StartSnapshot(l)) \/ FollowPointer \/ ReadRegion \/ SaveSnapshot
DumpStep == StartSeries \/ DumpChunk \/ SaveDump \/ SaveChanges
WatcherStep == StartMonitor \/ ReadSlot \/ EndPass \/ StartListening \/ Hear \/ EndPoll
Leaves(changed, kinds, known) ==
    /\ FilesBut(changed) /\ prog'.kind \in kinds
    /\ \A n \in known : truth'[n] = truth[n]

\* Each step is of one program, or of the game.
LEMMA BlocksOfSteps ==
    ASSUME MemoryTypes, ProgramTypes, CaptureNext
    PROVE  \/ CaptureStep \/ SnapshotStep \/ DumpStep \/ WatcherStep \/ Abort
           \/ \E w \in Words, v \in Nat : Played(w, v)
BY PlayDoes DEF CaptureNext, CaptureStep, SnapshotStep, DumpStep, WatcherStep

\* Captures touch their files and what is known of their names.
LEMMA CaptureLeaves ==
    ASSUME MemoryTypes, ProgramTypes, Capturing, CaptureStep
    PROVE  Leaves({"captures"}, {"none", "capture"}, Labels)
<1>0. Names \cap Labels = {} /\ DOMAIN truth = Names \cup Labels
  BY MemoryAssumption DEF MemoryTypes
<1>1. ASSUME NEW n \in Names, NEW r \in Ranges, StartCapture(n, r)
      PROVE  Leaves({"captures"}, {"none", "capture"}, Labels)
  <2>1. /\ Started("capture", n, FlattenSeq([i \in DOMAIN r |-> Pieces(r[i][1], r[i][2])]))
        /\ FilesBut({}) /\ truth' = [truth EXCEPT ![n] = Nothing]
    BY <1>1, StartCaptureDoes
  <2> QED
    BY <1>0, <2>1 DEF Started, Leaves, FilesBut
<1>2. ASSUME WriteChunk PROVE Leaves({"captures"}, {"none", "capture"}, Labels)
  <2>1. /\ prog.kind = "capture" /\ ProgBut({"todo", "got"})
        /\ FilesBut({"captures"}) /\ truth' = truth
    BY <1>2, WriteChunkDoes
  <2> QED
    BY <2>1 DEF ProgBut, ProgramTypes, Leaves
<1>3. ASSUME EndCapture PROVE Leaves({"captures"}, {"none", "capture"}, Labels)
  <2> DEFINE now == IF DOMAIN files.captures[prog.name] = ToSet(prog.got) THEN Known ELSE Nothing
  <2>1. /\ prog.kind = "capture" /\ prog' = Idle
        /\ FilesBut({}) /\ truth' = [truth EXCEPT ![prog.name] = now]
    BY <1>3, EndCaptureDoes
  <2> HIDE DEF now
  <2>2. prog.name \in Names
    BY <2>1 DEF Capturing
  <2> QED
    BY <1>0, <2>1, <2>2 DEF Leaves, FilesBut, Idle
<1> QED
  BY <1>1, <1>2, <1>3 DEF CaptureStep

\* Snapshots likewise.
LEMMA SnapshotLeaves ==
    ASSUME MemoryTypes, ProgramTypes, Snapshotting, SnapshotStep
    PROVE  Leaves({"snapshots"}, {"none", "snapshot"}, Names)
<1>0. Names \cap Labels = {} /\ DOMAIN truth = Names \cup Labels
  BY MemoryAssumption DEF MemoryTypes
<1>1. ASSUME NEW l \in Labels, StartSnapshot(l)
      PROVE  Leaves({"snapshots"}, {"none", "snapshot"}, Names)
  <2>1. Started("snapshot", l, Regions) /\ Kept
    BY <1>1, SnapshotsDo
  <2> QED
    BY <2>1 DEF Started, Kept, FilesBut, Leaves
<1>2. ASSUME FollowPointer \/ ReadRegion
      PROVE  Leaves({"snapshots"}, {"none", "snapshot"}, Names)
  <2>1. prog.kind = "snapshot" /\ (ProgBut({"at"}) \/ ProgBut({"todo", "got"})) /\ Kept
    BY <1>2, SnapshotsDo
  <2> QED
    BY <2>1 DEF ProgBut, ProgramTypes, Kept, FilesBut, Leaves
<1>3. ASSUME SaveSnapshot PROVE Leaves({"snapshots"}, {"none", "snapshot"}, Names)
  <2>1. /\ prog.kind = "snapshot" /\ prog' = Idle /\ FilesBut({"snapshots"})
        /\ truth' = [truth EXCEPT ![prog.name] = Known]
    BY <1>3, SnapshotsDo
  <2>2. prog.name \in Labels
    BY <2>1 DEF Snapshotting
  <2> QED
    BY <1>0, <2>1, <2>2 DEF Leaves, Idle
<1> QED
  BY <1>1, <1>2, <1>3 DEF SnapshotStep

\* Each step begins a run or none.
LEMMA RunsGrow ==
    ASSUME MemoryTypes, ProgramTypes, CaptureNext
    PROVE  bounds'.runs \in {bounds.runs, bounds.runs + 1}
<1>1. \/ bounds' = bounds \/ bounds' = [bounds EXCEPT !.runs = @ + 1]
      \/ \E x : bounds' = [bounds EXCEPT !.fails = x]
      \/ \E x : bounds' = [bounds EXCEPT !.writes = x]
  BY DEF CaptureNext, StartCapture, WriteChunk, EndCapture, StartSnapshot, FollowPointer,
         ReadRegion, SaveSnapshot, StartSeries, DumpChunk, SaveDump, SaveChanges, StartMonitor,
         ReadSlot, EndPass, StartListening, Hear, EndPoll, Abort, Play, Begin, Got
<1> QED
  BY <1>1 DEF MemoryTypes

\* Dumps know nothing.
LEMMA DumpLeaves ==
    ASSUME MemoryTypes, ProgramTypes, DumpStep
    PROVE  Leaves({"dumps", "diffs"}, {"none", "dump"}, Names \cup Labels)
<1>1. ASSUME StartSeries PROVE Leaves({"dumps", "diffs"}, {"none", "dump"}, Names \cup Labels)
  <2>1. Started("dump", "dump", Pieces(0, Size)) /\ Kept
    BY <1>1, DumpsDo
  <2> QED
    BY <2>1 DEF Started, Kept, FilesBut, Leaves
<1>2. ASSUME DumpChunk PROVE Leaves({"dumps", "diffs"}, {"none", "dump"}, Names \cup Labels)
  <2>1. prog.kind = "dump" /\ ProgBut({"todo", "got"}) /\ Kept
    BY <1>2, DumpsDo
  <2> QED
    BY <2>1 DEF ProgBut, ProgramTypes, Kept, FilesBut, Leaves
<1>3. ASSUME SaveDump \/ SaveChanges
      PROVE  Leaves({"dumps", "diffs"}, {"none", "dump"}, Names \cup Labels)
  <2>1. /\ prog.kind = "dump"
        /\ prog' = Idle \/ ProgBut({"todo", "got", "at", "prev", "step"})
        /\ FilesBut({"dumps", "diffs"}) /\ truth' = truth
    BY <1>3, DumpsDo DEF FilesBut, ProgBut
  <2> QED
    BY <2>1 DEF ProgBut, ProgramTypes, Leaves, Idle
<1> QED
  BY <1>1, <1>2, <1>3 DEF DumpStep

\* Neither do the watchers.
LEMMA WatcherLeaves ==
    ASSUME MemoryTypes, ProgramTypes, WatcherStep
    PROVE  Leaves({"garage", "heard"}, {"monitor", "listener"}, Names \cup Labels)
<1>1. ASSUME StartMonitor \/ StartListening
      PROVE  Leaves({"garage", "heard"}, {"monitor", "listener"}, Names \cup Labels)
  <2>1. /\ Started("monitor", "garage", GarageSlots) \/ Started("listener", "events", Heard)
        /\ FilesBut({"garage"}) \/ FilesBut({"heard"})
        /\ truth' = truth
    BY <1>1, WatchersDo
  <2> QED
    BY <2>1 DEF Started, FilesBut, Leaves
<1>2. ASSUME ReadSlot \/ Hear
      PROVE  Leaves({"garage", "heard"}, {"monitor", "listener"}, Names \cup Labels)
  <2>1. prog.kind \in {"monitor", "listener"} /\ ProgBut({"todo", "got"}) /\ Kept
    BY <1>2, WatchersDo
  <2> QED
    BY <2>1 DEF ProgBut, ProgramTypes, Kept, FilesBut, Leaves
<1>3. ASSUME EndPass \/ EndPoll
      PROVE  Leaves({"garage", "heard"}, {"monitor", "listener"}, Names \cup Labels)
  <2>1. /\ prog.kind \in {"monitor", "listener"} /\ ProgBut({"todo", "got", "steady"})
        /\ FilesBut({"garage"}) \/ FilesBut({"heard"})
        /\ truth' = truth
    BY <1>3, WatchersDo DEF PassEnded
  <2> QED
    BY <2>1 DEF ProgBut, ProgramTypes, FilesBut, Leaves
<1> QED
  BY <1>1, <1>2, <1>3 DEF WatcherStep

\* A program that ends early touches nothing.
LEMMA AbortLeaves ==
    ASSUME Abort
    PROVE  Leaves({}, {"none"}, Names \cup Labels) /\ game' = game
BY DEF Abort, End, Idle, FilesBut, Leaves
-----------------------------------------------------------------------------
(* Captures: their files, chunk by chunk.                                  *)
LEMMA BytesFacts ==
    ASSUME NEW from, NEW n \in Nat, NEW known, NEW s \in SUBSET Words,
           known = [w \in s |-> game[w]]
    PROVE  /\ Len(Bytes(from, n)) = n /\ DOMAIN Bytes(from, n) = 1..n
           /\ Agrees(Bytes(from, n), from, known)
<1>1. Len(Bytes(from, n)) = n /\ DOMAIN Bytes(from, n) = 1..n
  BY DEF Bytes
<1>2. \A i \in 1..n : Bytes(from, n)[i] = game[from + i - 1]
  BY DEF Bytes
<1> QED
  BY <1>1, <1>2 DEF Agrees

\* A write leaves less known and what is known right.
LEMMA KnownAfterWrite ==
    ASSUME MemoryTypes, ProgramTypes, prog.kind # "none",
           NEW w \in Words, NEW v \in Nat, Played(w, v)
    PROVE  /\ DOMAIN Known' \subseteq DOMAIN Known
           /\ \A x \in DOMAIN Known' : Known'[x] = Known[x]
           /\ 0 \in prog'.steady => 0 \in prog.steady /\ game'[0] = game[0]
<1>1. /\ game \in [Words -> Nat] /\ game' = [game EXCEPT ![w] = v]
      /\ prog'.steady = prog.steady \ {w} /\ prog.steady \subseteq Words
  BY DEF MemoryTypes, ProgramTypes, Played
<1>2. \A x \in prog'.steady : x \in prog.steady /\ game'[x] = game[x]
  BY <1>1
<1> QED
  BY <1>2 DEF Known

\* What agrees with more agrees with less.
LEMMA AgreesWithLess ==
    ASSUME NEW bytes, NEW at, NEW known, NEW less, Agrees(bytes, at, known),
           DOMAIN less \subseteq DOMAIN known, \A x \in DOMAIN less : less[x] = known[x]
    PROVE  Agrees(bytes, at, less)
BY DEF Agrees

\* The other programs keep what holds of captures.
LEMMA CapturesElsewhere ==
    ASSUME ChunkFiles, CapturesTrue, files'.captures = files.captures,
           \A n \in Names : truth'[n] = truth[n], prog'.kind # "capture"
    PROVE  ChunkFiles' /\ Capturing' /\ CapturesTrue'
BY DEF ChunkFiles, CapturesTrue, Capturing

\* A capture starts: the name promises nothing any more.
LEMMA StartCaptureStep ==
    ASSUME MemoryTypes, ProgramTypes, ChunkFiles, CapturesTrue,
           NEW n \in Names, NEW r \in Ranges, StartCapture(n, r)
    PROVE  ChunkFiles' /\ Capturing' /\ CapturesTrue'
<1> DEFINE parts == [i \in DOMAIN r |-> Pieces(r[i][1], r[i][2])]
<1>1. /\ Started("capture", n, FlattenSeq(parts))
      /\ FilesBut({}) /\ truth' = [truth EXCEPT ![n] = Nothing]
  BY StartCaptureDoes
<1>2. FlattenSeq(parts) \in Seq(Nat \X Nat)
  <2>1. r \in Seq(Nat \X Nat)
    BY MemoryAssumption
  <2>2. Len(r) \in Nat /\ DOMAIN r = 1..Len(r) /\ \A i \in DOMAIN r : r[i] \in Nat \X Nat
    BY <2>1
  <2>3. \A i \in DOMAIN r : r[i][1] \in Nat /\ r[i][2] \in Nat
    BY <2>2
  <2>4. \A i \in DOMAIN r : parts[i] \in Seq(Nat \X Nat)
    BY <2>3, PiecesFacts
  <2>5. parts \in [1..Len(r) -> Seq(Nat \X Nat)]
    BY <2>2, <2>4
  <2>6. parts \in Seq(Seq(Nat \X Nat))
    BY <2>2, <2>5
  <2> HIDE DEF parts
  <2> QED
    BY <2>6, Flattened
<1> HIDE DEF parts
<1>3. /\ files'.captures = files.captures /\ DOMAIN truth = Names \cup Labels
      /\ prog'.name = n /\ prog'.todo = FlattenSeq(parts) /\ prog'.got = <<>>
  BY <1>1 DEF FilesBut, MemoryTypes, Started
<1>4. ChunkFiles'
  BY <1>3 DEF ChunkFiles
<1>5. truth'[n] = Nothing /\ \A m \in Names : m # n => truth'[m] = truth[m]
  BY <1>1, <1>3
<1>6. CapturesTrue'
  BY <1>3, <1>5 DEF CapturesTrue
<1>7. ToSet(prog'.got) = {} /\ prog'.got \in Seq(Nat)
  BY <1>3 DEF ToSet
<1>8. Capturing'
  BY <1>2, <1>3, <1>5, <1>7 DEF Capturing
<1> QED
  BY <1>4, <1>6, <1>8

\* A chunk is right for the words that have stood still.
LEMMA WriteChunkStep ==
    ASSUME MemoryTypes, ProgramTypes, ChunkFiles, Capturing, CapturesTrue, WriteChunk
    PROVE  ChunkFiles' /\ Capturing' /\ CapturesTrue'
<1> DEFINE p == Head(prog.todo)
           name == prog.name
           file == files.captures[name]
           bytes == Bytes(p[1], p[2])
<1>1. /\ prog.kind = "capture" /\ prog.todo # <<>>
      /\ DOMAIN files'.captures = DOMAIN files.captures
      /\ \A n \in Names : n # name => files'.captures[n] = files.captures[n]
      /\ name \in Names => files'.captures[name] = Put(file, p[1], bytes)
      /\ ProgBut({"todo", "got"})
      /\ prog'.todo = Tail(prog.todo) /\ prog'.got = Append(prog.got, p[1])
      /\ game' = game /\ truth' = truth
  BY WriteChunkDoes
<1>2. /\ name \in Names /\ truth[name] = Nothing
      /\ prog.todo \in Seq(Nat \X Nat) /\ prog.got \in Seq(Nat)
      /\ \A b \in ToSet(prog.got) : b \in DOMAIN file /\ Agrees(file[b], b, Known)
  BY <1>1 DEF Capturing
<1>3. p \in Nat \X Nat /\ Tail(prog.todo) \in Seq(Nat \X Nat)
  BY <1>1, <1>2
<1>4. p[1] \in Nat /\ p[2] \in Nat
  BY <1>3
<1>5. prog'.name = name /\ prog'.steady = prog.steady /\ prog.steady \in SUBSET Words
  BY <1>1 DEF ProgBut, ProgramTypes
<1> HIDE DEF name, file, p
<1>6. Len(bytes) = p[2] /\ Agrees(bytes, p[1], Known)
  BY <1>4, <1>5, BytesFacts DEF Known
<1>7. Known' = Known
  BY <1>1, <1>5 DEF Known
<1> HIDE DEF bytes
<1> DEFINE file2 == files'.captures[name]
<1>8. /\ DOMAIN file2 = DOMAIN file \cup {p[1]} /\ file2[p[1]] = bytes
      /\ \A b \in DOMAIN file : b # p[1] => file2[b] = file[b]
  <2>1. file2 = Put(file, p[1], bytes)
    BY <1>1, <1>2
  <2> HIDE DEF file2
  <2> DEFINE b1 == p[1]
  <2>2. /\ DOMAIN Put(file, b1, bytes) = DOMAIN file \cup {b1} /\ Put(file, b1, bytes)[b1] = bytes
        /\ \A b \in DOMAIN file : b # b1 => Put(file, b1, bytes)[b] = file[b]
    BY DEF Put
  <2> QED
    BY <2>1, <2>2
<1> HIDE DEF file2
<1>9. ToSet(prog'.got) = ToSet(prog.got) \cup {p[1]} /\ prog'.got \in Seq(Nat)
  <2> DEFINE n == Len(prog.got)
  <2>1. /\ n \in Nat /\ DOMAIN prog.got = 1..n /\ DOMAIN prog'.got = 1..(n + 1)
        /\ prog'.got[n + 1] = p[1] /\ \A i \in 1..n : prog'.got[i] = prog.got[i]
        /\ prog'.got \in Seq(Nat)
    BY <1>1, <1>2, <1>4
  <2>2. 1..(n + 1) = (1..n) \cup {n + 1} /\ n + 1 \notin 1..n
    BY <2>1
  <2>3. ToSet(prog'.got) = {prog'.got[i] : i \in (1..n) \cup {n + 1}}
    BY <2>1, <2>2 DEF ToSet
  <2>4. ToSet(prog.got) = {prog.got[i] : i \in 1..n}
    BY <2>1 DEF ToSet
  <2> HIDE DEF n
  <2>5. {prog'.got[i] : i \in (1..n) \cup {n + 1}} = {prog.got[i] : i \in 1..n} \cup {p[1]}
    BY <2>1
  <2> QED
    BY <2>1, <2>3, <2>4, <2>5
<1>10. IsFiniteSet(DOMAIN file) /\ \A b \in DOMAIN file : b \in Nat /\ Len(file[b]) \in Nat
  BY <1>2 DEF ChunkFiles, file
<1>11. /\ IsFiniteSet(DOMAIN file2)
       /\ \A b \in DOMAIN file2 : b \in Nat /\ Len(file2[b]) \in Nat
  BY <1>4, <1>6, <1>8, <1>10, FS_AddElement
<1>12. ChunkFiles'
  BY <1>1, <1>11 DEF ChunkFiles, file2
<1>13. CapturesTrue'
  BY <1>1, <1>2 DEF CapturesTrue
<1>14. \A b \in ToSet(prog'.got) : b \in DOMAIN file2 /\ Agrees(file2[b], b, Known')
  BY <1>2, <1>6, <1>7, <1>8, <1>9
<1>15. Capturing'
  BY <1>1, <1>2, <1>3, <1>5, <1>9, <1>14 DEF Capturing, file2
<1> QED
  BY <1>12, <1>13, <1>15

\* At the end the file is right for them, if all of it is of this capture.
LEMMA EndCaptureStep ==
    ASSUME MemoryTypes, ProgramTypes, ChunkFiles, Capturing, CapturesTrue, EndCapture
    PROVE  ChunkFiles' /\ Capturing' /\ CapturesTrue'
<1> DEFINE name == prog.name
           whole == DOMAIN files.captures[name] = ToSet(prog.got)
<1>1. /\ prog.kind = "capture" /\ prog' = Idle /\ FilesBut({})
      /\ truth' = [truth EXCEPT ![name] = IF whole THEN Known ELSE Nothing]
  BY EndCaptureDoes
<1>2. /\ name \in Names
      /\ \A b \in ToSet(prog.got) : Agrees(files.captures[name][b], b, Known)
  BY <1>1 DEF Capturing
<1>3. files'.captures = files.captures /\ DOMAIN truth = Names \cup Labels
  BY <1>1 DEF FilesBut, MemoryTypes
<1> HIDE DEF name, whole
<1>4. ChunkFiles'
  BY <1>3 DEF ChunkFiles
<1>5. /\ truth'[name] = IF whole THEN Known ELSE Nothing
      /\ \A n \in Names : n # name => truth'[n] = truth[n]
  BY <1>1, <1>2, <1>3
<1>6. truth'[name] # Nothing =>
         \A b \in DOMAIN files.captures[name] : Agrees(files.captures[name][b], b, truth'[name])
  BY <1>2, <1>5 DEF whole
<1>7. CapturesTrue'
  BY <1>3, <1>5, <1>6 DEF CapturesTrue
<1>8. Capturing'
  BY <1>1 DEF Capturing, Idle
<1> QED
  BY <1>4, <1>7, <1>8

\* The game writes in between.
LEMMA CapturesPlayed ==
    ASSUME MemoryTypes, ProgramTypes, ChunkFiles, Capturing, CapturesTrue,
           NEW w \in Words, NEW v \in Nat, Played(w, v)
    PROVE  ChunkFiles' /\ Capturing' /\ CapturesTrue'
<1>1. files'.captures = files.captures /\ truth' = truth
  BY DEF Played, FilesBut, MemoryTypes
<1>2. CASE prog.kind # "capture"
  <2>1. prog'.kind # "capture"
    BY <1>2 DEF Played, ProgBut, ProgramTypes, Idle
  <2> QED
    BY <1>1, <2>1, CapturesElsewhere
<1>3. CASE prog.kind = "capture"
  <2>1. ChunkFiles' /\ CapturesTrue'
    BY <1>1 DEF ChunkFiles, CapturesTrue
  <2>2. prog.kind # "none" /\ ProgBut({"steady"})
    BY <1>3 DEF Played
  <2>3. prog'.name = prog.name /\ prog'.todo = prog.todo /\ prog'.got = prog.got
    BY <2>2 DEF ProgBut, ProgramTypes
  <2>4. /\ DOMAIN Known' \subseteq DOMAIN Known
        /\ \A x \in DOMAIN Known' : Known'[x] = Known[x]
    BY <2>2, KnownAfterWrite
  <2>5. /\ prog.name \in Names /\ truth[prog.name] = Nothing
        /\ prog.todo \in Seq(Nat \X Nat) /\ prog.got \in Seq(Nat)
        /\ \A b \in ToSet(prog.got) :
              /\ b \in DOMAIN files.captures[prog.name]
              /\ Agrees(files.captures[prog.name][b], b, Known)
    BY <1>3 DEF Capturing
  <2>6. \A b \in ToSet(prog.got) : Agrees(files.captures[prog.name][b], b, Known')
    BY <2>4, <2>5, AgreesWithLess
  <2>7. Capturing'
    BY <1>1, <2>3, <2>5, <2>6 DEF Capturing
  <2> QED
    BY <2>1, <2>7
<1> QED
  BY <1>2, <1>3
-----------------------------------------------------------------------------
(* Snapshots: what was read where the pointer says.                        *)
LEMMA RegionFacts ==
    ASSUME NEW r \in Range(Regions)
    PROVE  /\ r[2] \in Nat /\ Least(r[3], Cap) \in Nat
           /\ \A q \in Range(Regions) : q[1] = r[1] => q = r
<1>1. PICK i \in DOMAIN Regions : r = Regions[i]
  BY DEF Range
<1>2. Regions[i] \in STRING \X Nat \X Nat
  BY <1>1, MemoryAssumption
<1>3. r[2] \in Nat /\ r[3] \in Nat
  BY <1>1, <1>2
<1>4. \A j \in DOMAIN Regions : Regions[j][1] = r[1] => j = i
  BY <1>1, MemoryAssumption
<1>5. \A q \in Range(Regions) : q[1] = r[1] => q = r
  BY <1>1, <1>4 DEF Range
<1> QED
  BY <1>3, <1>5, MemoryAssumption DEF Least

\* The other programs keep what holds of snapshots.
LEMMA SnapshotsElsewhere ==
    ASSUME SnapshotsTrue, files'.snapshots = files.snapshots,
           \A l \in Labels : truth'[l] = truth[l], prog'.kind # "snapshot"
    PROVE  Snapshotting' /\ SnapshotsTrue'
BY DEF SnapshotsTrue, Snapshotting

\* Each region is to be read.
LEMMA StartSnapshotStep ==
    ASSUME MemoryTypes, ProgramTypes, SnapshotsTrue, NEW l \in Labels, StartSnapshot(l)
    PROVE  Snapshotting' /\ SnapshotsTrue'
<1>1. Started("snapshot", l, Regions) /\ Kept
  BY SnapshotsDo
<1>2. SnapshotsTrue'
  BY <1>1 DEF SnapshotsTrue, Kept, FilesBut, MemoryTypes
<1>3. Regions \in Seq(Range(Regions))
  <2>1. /\ Len(Regions) \in Nat /\ DOMAIN Regions = 1..Len(Regions)
        /\ Regions = [i \in 1..Len(Regions) |-> Regions[i]]
    BY MemoryAssumption
  <2>2. Regions \in [1..Len(Regions) -> Range(Regions)]
    BY <2>1 DEF Range
  <2> QED
    BY <2>1, <2>2
<1>4. Snapshotting'
  BY <1>1, <1>3 DEF Snapshotting, Started
<1> QED
  BY <1>2, <1>4

\* The profile is looked for where the pointer says.
LEMMA FollowPointerStep ==
    ASSUME MemoryTypes, ProgramTypes, Snapshotting, SnapshotsTrue, FollowPointer
    PROVE  Snapshotting' /\ SnapshotsTrue'
<1>1. /\ prog.kind = "snapshot" /\ ProgBut({"at"})
      /\ prog'.at = IF Plausible(game[0]) THEN game[0] ELSE Fallback
      /\ Kept
  BY SnapshotsDo
<1>2. SnapshotsTrue'
  BY <1>1 DEF SnapshotsTrue, Kept, FilesBut, MemoryTypes
<1>3. /\ prog'.kind = "snapshot" /\ prog'.name = prog.name /\ prog'.todo = prog.todo
      /\ prog'.got = prog.got /\ prog'.steady = prog.steady /\ game' = game
  BY <1>1 DEF ProgBut, ProgramTypes, Kept
<1>4. Known' = Known
  BY <1>3 DEF Known
<1>5. Snapshotting'
  BY <1>1, <1>3, <1>4 DEF Snapshotting
<1> QED
  BY <1>2, <1>5

\* A region that is read is right for the words that have stood still.
LEMMA ReadRegionStep ==
    ASSUME MemoryTypes, ProgramTypes, Snapshotting, SnapshotsTrue, ReadRegion
    PROVE  Snapshotting' /\ SnapshotsTrue'
<1> DEFINE r == Head(prog.todo)
           from == IF r[1] = "profile_data" THEN prog.at ELSE r[2]
           n == Least(r[3], Cap)
<1>1. /\ prog.kind = "snapshot" /\ prog.todo # <<>> /\ ProgBut({"todo", "got"})
      /\ prog'.todo = Tail(prog.todo) /\ Kept
      /\ r[1] = "profile_data" => prog.at # 0
  BY SnapshotsDo
<1>2. PICK bytes : bytes \in Reading(from, n) /\ prog'.got = Put(prog.got, r[1], bytes)
  BY SnapshotsDo
<1>3. SnapshotsTrue'
  BY <1>1 DEF SnapshotsTrue, Kept, FilesBut, MemoryTypes
<1>4. /\ prog'.kind = "snapshot" /\ prog'.name = prog.name /\ prog'.at = prog.at
      /\ prog'.steady = prog.steady /\ game' = game
      /\ prog.steady \in SUBSET Words
  BY <1>1 DEF ProgBut, ProgramTypes, Kept
<1>5. Known' = Known
  BY <1>4 DEF Known
<1>6. /\ prog.name \in Labels /\ prog.todo \in Seq(Range(Regions))
      /\ prog.at # 0 /\ 0 \in prog.steady /\ Plausible(game[0]) => prog.at = game[0]
      /\ \A q \in Range(Regions) :
            \/ q \in Range(prog.todo)
            \/ q[1] \in DOMAIN prog.got /\ RegionRight(prog.got[q[1]], q, Known)
  BY <1>1 DEF Snapshotting
<1>7. /\ r \in Range(Regions) /\ Tail(prog.todo) \in Seq(Range(Regions))
      /\ \A q \in Range(prog.todo) : q = r \/ q \in Range(Tail(prog.todo))
  <2> DEFINE m == Len(prog.todo)
             s == prog.todo
  <2>1. /\ m \in Nat \ {0} /\ DOMAIN s = 1..m /\ s \in Seq(Range(Regions))
    BY <1>1, <1>6
  <2>2. /\ r = s[1] /\ s[1] \in Range(Regions) /\ Tail(s) \in Seq(Range(Regions))
        /\ Len(Tail(s)) = m - 1 /\ DOMAIN Tail(s) = 1..(m - 1)
        /\ \A i \in 1..(m - 1) : Tail(s)[i] = s[i + 1]
    BY <1>1, <2>1
  <2>3. ASSUME NEW i \in 1..m, i # 1 PROVE s[i] \in Range(Tail(s))
    <3>1. i - 1 \in 1..(m - 1) /\ (i - 1) + 1 = i
      BY <2>1, <2>3
    <3> QED
      BY <2>2, <3>1 DEF Range
  <2> QED
    BY <2>1, <2>2, <2>3 DEF Range
<1>8. Least(r[3], Cap) \in Nat /\ \A q \in Range(Regions) : q[1] = r[1] => q = r
  BY <1>7, RegionFacts
<1> HIDE DEF r
<1>9. IsBytes(bytes) /\ Agrees(bytes, from, Known)
  <2>1. CASE bytes = Nothing
    BY <2>1 DEF IsBytes, Agrees, Nothing
  <2>2. CASE bytes = Bytes(from, n)
    <3> HIDE DEF from
    <3>1. n \in Nat
      BY <1>8
    <3> HIDE DEF n
    <3>2. /\ Len(Bytes(from, n)) = n /\ DOMAIN Bytes(from, n) = 1..n
          /\ Agrees(Bytes(from, n), from, Known)
      BY <1>4, <3>1, BytesFacts DEF Known
    <3> QED
      BY <2>2, <3>1, <3>2 DEF IsBytes
  <2> QED
    BY <1>2, <2>1, <2>2 DEF Reading
<1>10. 0 \in DOMAIN Known /\ Plausible(Known[0]) => from = RegionAt(r, Known[0])
  <2>1. DOMAIN Known = prog.steady /\ (0 \in prog.steady => Known[0] = game[0])
    BY DEF Known
  <2> QED
    BY <1>1, <1>6, <2>1 DEF RegionAt
<1>11. RegionRight(bytes, r, Known)
  BY <1>9, <1>10 DEF RegionRight
<1> HIDE DEF from, n
<1>12. /\ DOMAIN prog'.got = DOMAIN prog.got \cup {r[1]} /\ prog'.got[r[1]] = bytes
       /\ \A k \in DOMAIN prog.got : k # r[1] => prog'.got[k] = prog.got[k]
  BY <1>2 DEF Put
<1>13. ASSUME NEW q \in Range(Regions)
       PROVE  \/ q \in Range(prog'.todo)
              \/ q[1] \in DOMAIN prog'.got /\ RegionRight(prog'.got[q[1]], q, Known)
  <2>1. CASE q = r
    BY <1>11, <1>12, <2>1
  <2>2. CASE q # r
    <3>1. q[1] # r[1]
      BY <1>8, <2>2
    <3>2. CASE q \in Range(prog.todo)
      BY <1>1, <1>7, <2>2, <3>2
    <3>3. CASE q[1] \in DOMAIN prog.got /\ RegionRight(prog.got[q[1]], q, Known)
      BY <1>12, <3>1, <3>3
    <3> QED
      BY <1>6, <3>2, <3>3
  <2> QED
    BY <2>1, <2>2
<1>14. Snapshotting'
  BY <1>1, <1>4, <1>5, <1>6, <1>7, <1>13 DEF Snapshotting
<1> QED
  BY <1>3, <1>14

\* The file has all of them, and the pointer they were read by.
LEMMA SaveSnapshotStep ==
    ASSUME MemoryTypes, ProgramTypes, Snapshotting, SnapshotsTrue, SaveSnapshot
    PROVE  Snapshotting' /\ SnapshotsTrue'
<1>1. /\ prog.kind = "snapshot" /\ prog.todo = <<>> /\ prog' = Idle
      /\ files'.snapshots = [files.snapshots EXCEPT ![prog.name] = Saved]
      /\ truth' = [truth EXCEPT ![prog.name] = Known]
  BY SnapshotsDo
<1>2. /\ prog.name \in Labels
      /\ \A r \in Range(Regions) : \/ r \in Range(prog.todo)
                                   \/ RegionRight(prog.got[r[1]], r, Known)
  BY <1>1 DEF Snapshotting
<1>3. Range(prog.todo) = {}
  BY <1>1 DEF Range
<1>4. DOMAIN truth = Names \cup Labels /\ DOMAIN files.snapshots = Labels
  BY DEF MemoryTypes
<1>5. /\ files'.snapshots[prog.name] = Saved /\ truth'[prog.name] = Known
      /\ \A l \in Labels : l # prog.name =>
            files'.snapshots[l] = files.snapshots[l] /\ truth'[l] = truth[l]
  BY <1>1, <1>2, <1>4
<1>6. Saved.regions = prog.got /\ Saved.ptr = game[0]
  BY DEF Saved
<1>7. 0 \in DOMAIN Known => Known[0] = game[0]
  BY DEF Known
<1>8. SnapshotsTrue'
  <2> SUFFICES ASSUME NEW l \in Labels, truth'[l] # Nothing
               PROVE  /\ 0 \in DOMAIN truth'[l] => files'.snapshots[l].ptr = truth'[l][0]
                      /\ \A r \in Range(Regions) :
                            RegionRight(files'.snapshots[l].regions[r[1]], r, truth'[l])
    BY DEF SnapshotsTrue
  <2>1. CASE l = prog.name
    BY <1>2, <1>3, <1>5, <1>6, <1>7, <2>1
  <2>2. CASE l # prog.name
    BY <1>5, <2>2 DEF SnapshotsTrue
  <2> QED
    BY <2>1, <2>2
<1>9. Snapshotting'
  BY <1>1 DEF Snapshotting, Idle
<1> QED
  BY <1>8, <1>9

\* The game writes in between.
LEMMA SnapshotsPlayed ==
    ASSUME MemoryTypes, ProgramTypes, Snapshotting, SnapshotsTrue,
           NEW w \in Words, NEW v \in Nat, Played(w, v)
    PROVE  Snapshotting' /\ SnapshotsTrue'
<1>1. files'.snapshots = files.snapshots /\ truth' = truth
  BY DEF Played, FilesBut, MemoryTypes
<1>2. CASE prog.kind # "snapshot"
  <2>1. prog'.kind # "snapshot"
    BY <1>2 DEF Played, ProgBut, ProgramTypes, Idle
  <2> QED
    BY <1>1, <2>1, SnapshotsElsewhere
<1>3. CASE prog.kind = "snapshot"
  <2>1. SnapshotsTrue'
    BY <1>1 DEF SnapshotsTrue
  <2>2. prog.kind # "none" /\ ProgBut({"steady"})
    BY <1>3 DEF Played
  <2>3. /\ prog'.name = prog.name /\ prog'.todo = prog.todo /\ prog'.got = prog.got
        /\ prog'.at = prog.at
    BY <2>2 DEF ProgBut, ProgramTypes
  <2>4. /\ DOMAIN Known' \subseteq DOMAIN Known
        /\ \A x \in DOMAIN Known' : Known'[x] = Known[x]
        /\ 0 \in prog'.steady => 0 \in prog.steady /\ game'[0] = game[0]
    BY <2>2, KnownAfterWrite
  <2>5. /\ prog.name \in Labels /\ prog.todo \in Seq(Range(Regions))
        /\ prog.at # 0 /\ 0 \in prog.steady /\ Plausible(game[0]) => prog.at = game[0]
        /\ \A q \in Range(Regions) :
              \/ q \in Range(prog.todo)
              \/ q[1] \in DOMAIN prog.got /\ RegionRight(prog.got[q[1]], q, Known)
    BY <1>3 DEF Snapshotting
  <2>6. ASSUME NEW q, NEW bytes, RegionRight(bytes, q, Known)
        PROVE  RegionRight(bytes, q, Known')
    <3> SUFFICES ASSUME 0 \in DOMAIN Known', Plausible(Known'[0])
                 PROVE  Agrees(bytes, RegionAt(q, Known'[0]), Known')
      BY <2>6 DEF RegionRight
    <3>1. Agrees(bytes, RegionAt(q, Known[0]), Known) /\ Known'[0] = Known[0]
      BY <2>4, <2>6 DEF RegionRight
    <3> QED
      BY <2>4, <3>1, AgreesWithLess
  <2>7. \A q \in Range(Regions) :
           \/ q \in Range(prog.todo)
           \/ q[1] \in DOMAIN prog.got /\ RegionRight(prog.got[q[1]], q, Known')
    BY <2>5, <2>6
  <2>8. prog'.at # 0 /\ 0 \in prog'.steady /\ Plausible(game'[0]) => prog'.at = game'[0]
    BY <2>3, <2>4, <2>5
  <2>9. Snapshotting'
    BY <2>3, <2>5, <2>7, <2>8 DEF Snapshotting
  <2> QED
    BY <2>1, <2>9
<1> QED
  BY <1>2, <1>3
-----------------------------------------------------------------------------
(* Series of dumps.                                                        *)
LEMMA BasesFacts ==
    ASSUME NEW b \in Bases
    PROVE  /\ b \in Nat /\ b < Size /\ Least(Chunk, Size - b) \in Nat \ {0}
           /\ \A i \in 1..Least(Chunk, Size - b) : b + i - 1 \in Words
<1>1. /\ b \in Nat /\ b < Size /\ Size \in Nat /\ Chunk \in Nat \ {0}
  BY MemoryAssumption DEF Bases
<1> QED
  BY <1>1 DEF Least, Words

DumpInv == Dumping /\ SeriesGoesOn /\ SeriesRight

\* No file is of a run to come, whenever another run begins.
LEMMA MarkedLater ==
    ASSUME NEW dumps, NEW diffs, NEW run \in Nat, NEW run2 \in {run, run + 1},
           Marked(dumps, diffs, run)
    PROVE  Marked(dumps, diffs, run2)
<1>1. 0..run \subseteq 0..run2
  OBVIOUS
<1> QED
  BY <1>1 DEF Marked

\* The files stay right, if no series writes one.
LEMMA SeriesStays ==
    ASSUME MemoryTypes, SeriesRight, files'.dumps = files.dumps, files'.diffs = files.diffs,
           bounds'.runs \in {bounds.runs, bounds.runs + 1}
    PROVE  SeriesRight'
<1>1. Marked(files.dumps, files.diffs, bounds'.runs)
  BY MarkedLater DEF MemoryTypes, SeriesRight
<1>2. Neighbours(files.dumps, files.diffs) /\ Complete(files.dumps, files.diffs)
  BY DEF SeriesRight
<1>3. /\ Marked(files'.dumps, files'.diffs, bounds'.runs)
      /\ Neighbours(files'.dumps, files'.diffs) /\ Complete(files'.dumps, files'.diffs)
  BY <1>1, <1>2
<1> QED
  BY <1>3 DEF SeriesRight

\* The other programs keep what holds of dumps.
LEMMA DumpsElsewhere ==
    ASSUME MemoryTypes, DumpInv, files'.dumps = files.dumps, files'.diffs = files.diffs,
           prog'.kind # "dump", bounds'.runs \in {bounds.runs, bounds.runs + 1}
    PROVE  DumpInv'
<1>1. SeriesRight'
  BY SeriesStays DEF DumpInv
<1>2. Dumping' /\ SeriesGoesOn'
  BY DEF Dumping, SeriesGoesOn
<1> QED
  BY <1>1, <1>2 DEF DumpInv

\* So does a dump that is not saved yet.
LEMMA DumpGoesOn ==
    ASSUME MemoryTypes, SeriesRight, FilesBut({}),
           bounds'.runs \in {bounds.runs, bounds.runs + 1}
    PROVE  SeriesRight' /\ files'.dumps = files.dumps /\ files'.diffs = files.diffs
<1>1. files'.dumps = files.dumps /\ files'.diffs = files.diffs
  BY DEF FilesBut, MemoryTypes
<1> QED
  BY <1>1, SeriesStays

\* The pieces of the memory, to be read one after the other.
LEMMA PiecesToRead ==
    /\ Pieces(0, Size) \in Seq({PieceAt(b) : b \in Bases})
    /\ \A b \in Bases : PieceAt(b) \in Range(Pieces(0, Size))
<1> DEFINE s == Pieces(0, Size)
           all == {PieceAt(b) : b \in Bases}
<1>2. {b \in 0..(Size - 1) : (b - 0) % Chunk = 0} = Bases
  BY DEF Bases
<1>3. /\ s \in Seq(Nat \X Nat)
      /\ \A i \in DOMAIN s : \E b \in Bases : s[i] = PieceAt(b)
      /\ \A b \in Bases : \E i \in DOMAIN s : s[i] = PieceAt(b)
  <2>1. Size \in Nat /\ 0 \in Nat
    BY MemoryAssumption
  <2> DEFINE bases == {b \in 0..(Size - 1) : (b - 0) % Chunk = 0}
  <2>2. /\ s \in Seq(Nat \X Nat)
        /\ \A i \in DOMAIN s : \E b \in bases : s[i] = <<b, Least(Chunk, Size - b)>>
        /\ \A b \in bases : \E i \in DOMAIN s : s[i] = <<b, Least(Chunk, Size - b)>>
    BY <2>1, PiecesFacts
  <2> HIDE DEF bases, s
  <2>3. bases = Bases
    BY <1>2 DEF bases
  <2> QED
    BY <2>2, <2>3 DEF PieceAt
<1> HIDE DEF s
<1>4. s \in Seq(all)
  <2>1. Len(s) \in Nat /\ DOMAIN s = 1..Len(s) /\ s = [i \in 1..Len(s) |-> s[i]]
    BY <1>3
  <2>2. \A i \in 1..Len(s) : s[i] \in all
    BY <1>3, <2>1
  <2> HIDE DEF all
  <2>3. s \in [1..Len(s) -> all]
    BY <2>1, <2>2
  <2> QED
    BY <2>1, <2>3
<1>5. \A b \in Bases : PieceAt(b) \in Range(s)
  BY <1>3 DEF Range
<1> QED
  BY <1>4, <1>5 DEF s

\* The first dump of a series is the next run's.
LEMMA StartSeriesStep ==
    ASSUME MemoryTypes, ProgramTypes, DumpInv, StartSeries
    PROVE  DumpInv'
<1>1. /\ Started("dump", "dump", Pieces(0, Size)) /\ FilesBut({})
      /\ bounds'.runs = bounds.runs + 1 /\ bounds.runs \in Nat
  BY DumpsDo DEF Kept, Started, MemoryTypes
<1>2. /\ prog'.todo = Pieces(0, Size) /\ prog'.got = <<>> /\ DOMAIN prog'.got = {}
      /\ prog'.at = 0 /\ prog'.prev = Nothing /\ prog'.step = "read"
  BY <1>1 DEF Started
<1>3. prog'.got \in [DOMAIN prog'.got -> Seq(Nat)]
  BY <1>2
<1>4. Dumping'
  BY <1>2, <1>3, PiecesToRead DEF Dumping
<1>5. SeriesRight' /\ files'.dumps = files.dumps /\ files'.diffs = files.diffs
  BY <1>1, DumpGoesOn DEF DumpInv
<1>6. Numbered(files.dumps, files.diffs, bounds.runs + 1, 0, 0)
  <2>1. Marked(files.dumps, files.diffs, bounds.runs)
    BY DEF DumpInv, SeriesRight
  <2>2. /\ \A i \in DOMAIN files.dumps : files.dumps[i].run # bounds.runs + 1
        /\ \A k \in DOMAIN files.diffs : files.diffs[k].run # bounds.runs + 1
    BY <1>1, <2>1 DEF Marked
  <2>3. 0..(0 - 1) = {} /\ 1..(0 - 1) = {}
    OBVIOUS
  <2> QED
    BY <2>2, <2>3 DEF Numbered
<1>7. SeriesGoesOn'
  BY <1>1, <1>2, <1>5, <1>6 DEF SeriesGoesOn
<1> QED
  BY <1>4, <1>5, <1>7 DEF DumpInv

\* A piece is read, or is left empty.
LEMMA DumpChunkStep ==
    ASSUME MemoryTypes, ProgramTypes, DumpInv, DumpChunk
    PROVE  DumpInv'
<1> DEFINE p == Head(prog.todo)
           all == {PieceAt(b) : b \in Bases}
<1>1. /\ prog.kind = "dump" /\ prog.todo # <<>> /\ ProgBut({"todo", "got"})
      /\ prog'.todo = Tail(prog.todo) /\ FilesBut({}) /\ bounds'.runs = bounds.runs
  BY DumpsDo DEF Kept
<1>2. PICK bytes : bytes \in Reading(p[1], p[2]) /\ prog'.got = Put(prog.got, p[1], bytes)
  BY DumpsDo
<1>3. /\ prog.todo \in Seq(all)
      /\ DOMAIN prog.got \subseteq Bases /\ prog.got \in [DOMAIN prog.got -> Seq(Nat)]
      /\ \A b \in Bases : b \in DOMAIN prog.got \/ PieceAt(b) \in Range(prog.todo)
      /\ \A b \in DOMAIN prog.got : Piece(prog.got[b], b)
  BY <1>1 DEF DumpInv, Dumping
<1>4. /\ p \in all /\ Tail(prog.todo) \in Seq(all)
      /\ \A q \in Range(prog.todo) : q = p \/ q \in Range(Tail(prog.todo))
  <2> DEFINE m == Len(prog.todo)
             s == prog.todo
  <2> HIDE DEF all
  <2>1. m \in Nat \ {0} /\ DOMAIN s = 1..m /\ s \in Seq(all)
    BY <1>1, <1>3
  <2>2. /\ p = s[1] /\ s[1] \in all /\ Tail(s) \in Seq(all)
        /\ Len(Tail(s)) = m - 1 /\ DOMAIN Tail(s) = 1..(m - 1)
        /\ \A i \in 1..(m - 1) : Tail(s)[i] = s[i + 1]
    BY <1>1, <2>1
  <2>3. ASSUME NEW i \in 1..m, i # 1 PROVE s[i] \in Range(Tail(s))
    <3>1. i - 1 \in 1..(m - 1) /\ (i - 1) + 1 = i
      BY <2>1, <2>3
    <3> QED
      BY <2>2, <3>1 DEF Range
  <2> QED
    BY <2>1, <2>2, <2>3 DEF Range
<1>5. PICK b \in Bases : p = PieceAt(b)
  BY <1>4
<1> DEFINE n == Least(Chunk, Size - b)
<1>6. p[1] = b /\ p[2] = n
  BY <1>5 DEF PieceAt
<1>7. n \in Nat /\ \A i \in 1..n : b + i - 1 \in Words
  BY BasesFacts
<1> HIDE DEF p, n
<1>8. bytes \in Seq(Nat) /\ (bytes = Nothing \/ DOMAIN bytes = 1..n)
  <2>1. CASE bytes = Nothing
    BY <2>1 DEF Nothing
  <2>2. CASE bytes = Bytes(b, n)
    <3>1. Bytes(b, n) = [i \in 1..n |-> game[b + i - 1]]
      BY DEF Bytes
    <3>2. \A i \in 1..n : game[b + i - 1] \in Nat
      BY <1>7 DEF MemoryTypes
    <3>3. Bytes(b, n) \in [1..n -> Nat]
      BY <3>1, <3>2
    <3> QED
      BY <1>7, <2>2, <3>3
  <2> QED
    BY <1>2, <1>6, <2>1, <2>2 DEF Reading
<1>9. Piece(bytes, b)
  BY <1>8 DEF Piece, n
<1>10. /\ DOMAIN prog'.got = DOMAIN prog.got \cup {b} /\ prog'.got[b] = bytes
       /\ \A k \in DOMAIN prog.got : k # b => prog'.got[k] = prog.got[k]
  BY <1>2, <1>6 DEF Put
<1>11. ASSUME NEW c \in Bases
       PROVE  c \in DOMAIN prog'.got \/ PieceAt(c) \in Range(prog'.todo)
  <2>1. CASE PieceAt(c) = p
    <3>1. c = b
      BY <1>6, <2>1 DEF PieceAt
    <3> QED
      BY <1>10, <3>1
  <2>2. CASE PieceAt(c) # p
    BY <1>1, <1>3, <1>4, <1>10, <2>2
  <2> QED
    BY <2>1, <2>2
<1>12. \A c \in DOMAIN prog'.got : Piece(prog'.got[c], c)
  BY <1>3, <1>9, <1>10
<1>13. prog'.got \in [DOMAIN prog'.got -> Seq(Nat)]
  <2>1. prog'.got = [k \in DOMAIN prog.got \cup {b} |-> IF k = b THEN bytes ELSE prog.got[k]]
    BY <1>2, <1>6 DEF Put
  <2> QED
    BY <1>3, <1>8, <2>1
<1>14. Dumping'
  BY <1>1, <1>3, <1>4, <1>10, <1>11, <1>12, <1>13 DEF Dumping
<1>15. SeriesRight' /\ files'.dumps = files.dumps /\ files'.diffs = files.diffs
  BY <1>1, DumpGoesOn DEF DumpInv
<1>16. prog'.at = prog.at /\ prog'.prev = prog.prev /\ prog'.step = prog.step
  BY <1>1 DEF ProgBut, ProgramTypes
<1>17. SeriesGoesOn'
  BY <1>1, <1>15, <1>16 DEF DumpInv, SeriesGoesOn
<1> QED
  BY <1>14, <1>15, <1>17 DEF DumpInv

\* A difference is of addresses, places and values.
LEMMA ChangesType ==
    ASSUME NEW prev \in [Bases -> Seq(Nat)], NEW curr \in [Bases -> Seq(Nat)]
    PROVE  Changes(prev, curr) \in SUBSET (Nat \X Nat \X Nat)
<1> SUFFICES ASSUME NEW c \in Changes(prev, curr) PROVE c \in Nat \X Nat \X Nat
  OBVIOUS
<1>1. PICK b \in Bases : \E i \in DOMAIN prev[b] \cap DOMAIN curr[b] : c = <<b, i, curr[b][i]>>
  BY DEF Changes
<1>2. PICK i \in DOMAIN prev[b] \cap DOMAIN curr[b] : c = <<b, i, curr[b][i]>>
  BY <1>1
<1>3. b \in Nat /\ curr[b] \in Seq(Nat)
  BY BasesFacts
<1>4. i \in Nat /\ curr[b][i] \in Nat
  BY <1>2, <1>3
<1> QED
  BY <1>2, <1>3, <1>4

\* One more dump of a series.
LEMMA OneDumpMore ==
    ASSUME NEW dumps, NEW diffs, NEW run \in Nat, NEW at, NEW chunks, Whole(chunks),
           Marked(dumps, diffs, run), Neighbours(dumps, diffs), Complete(dumps, diffs),
           Numbered(dumps, diffs, run, at, at),
           NEW dumps2, dumps2 = Put(dumps, at, [run |-> run, chunks |-> chunks])
    PROVE  /\ Marked(dumps2, diffs, run) /\ Neighbours(dumps2, diffs) /\ Complete(dumps2, diffs)
           /\ Numbered(dumps2, diffs, run, at, at + 1)
           /\ dumps2[at].chunks = chunks
           /\ at # 0 => dumps2[at - 1] = dumps[at - 1]
<1>1. /\ DOMAIN dumps2 = DOMAIN dumps \cup {at}
      /\ dumps2[at] = [run |-> run, chunks |-> chunks]
      /\ \A i \in DOMAIN dumps : i # at => dumps2[i] = dumps[i]
  <2> DEFINE entry == [run |-> run, chunks |-> chunks]
  <2>1. dumps2 = Put(dumps, at, entry)
    OBVIOUS
  <2> HIDE DEF entry
  <2>2. /\ DOMAIN dumps2 = DOMAIN dumps \cup {at}
        /\ dumps2[at] = entry
        /\ \A i \in DOMAIN dumps : i # at => dumps2[i] = dumps[i]
    BY ONLY <2>1 DEF Put
  <2> QED
    BY <2>2 DEF entry
<1>2. dumps2[at].run = run /\ dumps2[at].chunks = chunks
  BY <1>1
<1>3. /\ at \in Nat
      /\ \A i \in 0..(at - 1) : i \in DOMAIN dumps /\ dumps[i].run = run
      /\ \A i \in DOMAIN dumps : dumps[i].run = run => i < at
      /\ \A k \in 1..(at - 1) : k \in DOMAIN diffs /\ diffs[k].run = run
      /\ \A k \in DOMAIN diffs : diffs[k].run = run => k < at
  BY DEF Numbered
<1>4. /\ \A i \in DOMAIN dumps : i \in Nat /\ dumps[i].run \in 0..run /\ Whole(dumps[i].chunks)
      /\ \A k \in DOMAIN diffs : /\ k \in Nat \ {0} /\ diffs[k].run \in 0..run
                                 /\ diffs[k].rows \in SUBSET (Nat \X Nat \X Nat)
  BY DEF Marked
<1>5. dumps2[0].run = run
  <2>1. CASE at = 0
    BY <1>2, <2>1
  <2>2. CASE at # 0
    <3>1. 0 \in 0..(at - 1)
      BY <1>3, <2>2
    <3> QED
      BY <1>1, <1>3, <2>2, <3>1
  <2> QED
    BY <2>1, <2>2
<1>6. Marked(dumps2, diffs, run)
  <2>1. run \in 0..run
    OBVIOUS
  <2>2. ASSUME NEW i \in DOMAIN dumps2
        PROVE  i \in Nat /\ dumps2[i].run \in 0..run /\ Whole(dumps2[i].chunks)
    <3>1. CASE i = at
      BY <1>2, <1>3, <2>1, <3>1
    <3>2. CASE i # at
      BY <1>1, <1>4, <3>2
    <3> QED
      BY <3>1, <3>2
  <2> QED
    BY <1>4, <2>2 DEF Marked
<1>7. Numbered(dumps2, diffs, run, at, at + 1)
  <2>1. ASSUME NEW i \in 0..at PROVE i \in DOMAIN dumps2 /\ dumps2[i].run = run
    <3>1. i = at \/ i \in 0..(at - 1)
      BY <1>3
    <3>2. i \in 0..(at - 1) => i # at
      BY <1>3
    <3> QED
      BY <1>1, <1>2, <1>3, <3>1, <3>2
  <2>2. ASSUME NEW i \in DOMAIN dumps2, dumps2[i].run = run PROVE i < at + 1
    <3>1. CASE i = at
      BY <1>3, <3>1
    <3>2. CASE i # at
      <4>1. i \in DOMAIN dumps /\ i < at /\ i \in Nat
        BY <1>1, <1>3, <1>4, <2>2, <3>2
      <4> QED
        BY <1>3, <4>1
    <3> QED
      BY <3>1, <3>2
  <2>3. (at + 1) - 1 = at
    BY <1>3
  <2> QED
    BY <1>3, <2>1, <2>2, <2>3 DEF Numbered
<1>8. Neighbours(dumps2, diffs)
  <2> SUFFICES ASSUME NEW k \in DOMAIN diffs, diffs[k].run = run
               PROVE  diffs[k].rows = Changes(dumps2[k - 1].chunks, dumps2[k].chunks)
    BY <1>5 DEF Neighbours
  <2>1. k < at /\ k \in Nat \ {0}
    BY <1>3, <1>4
  <2>2. k - 1 \in 0..(at - 1) /\ k \in 0..(at - 1) /\ 0 \in 0..(at - 1)
    BY <1>3, <2>1
  <2>3. k - 1 # at /\ k # at
    BY <1>3, <2>1
  <2>4. dumps2[k - 1] = dumps[k - 1] /\ dumps2[k] = dumps[k] /\ dumps[0].run = run
    BY <1>1, <1>3, <2>2, <2>3
  <2> QED
    BY <2>4 DEF Neighbours
<1>9. Complete(dumps2, diffs)
  <2> SUFFICES ASSUME NEW last \in DOMAIN dumps2,
                      \A j \in 0..last : j \in DOMAIN dumps2 /\ dumps2[j].run = run,
                      NEW k \in 1..(last - 1)
               PROVE  k \in DOMAIN diffs /\ diffs[k].run = run
    BY <1>5 DEF Complete
  <2>1. last \in Nat
    BY <1>6 DEF Marked
  <2>2. dumps2[last].run = run
    BY <2>1
  <2>3. last < at + 1
    BY <1>7, <2>2 DEF Numbered
  <2>4. k \in 1..(at - 1)
    BY <1>3, <2>1, <2>3
  <2> QED
    BY <1>3, <2>4
<1>10. at # 0 => dumps2[at - 1] = dumps[at - 1]
  <2> SUFFICES ASSUME at # 0 PROVE dumps2[at - 1] = dumps[at - 1]
    OBVIOUS
  <2>1. at - 1 \in 0..(at - 1) /\ at - 1 # at
    BY <1>3
  <2> QED
    BY <1>1, <1>3, <2>1
<1> QED
  BY <1>2, <1>6, <1>7, <1>8, <1>9, <1>10

\* One more difference, from the dump before to the newest.
LEMMA OneDifferenceMore ==
    ASSUME NEW dumps, NEW diffs, NEW run \in Nat, NEW at, at # 0,
           Marked(dumps, diffs, run), Neighbours(dumps, diffs), Complete(dumps, diffs),
           Numbered(dumps, diffs, run, at, at + 1),
           NEW change \in SUBSET (Nat \X Nat \X Nat),
           change = Changes(dumps[at - 1].chunks, dumps[at].chunks),
           NEW diffs2, diffs2 = Put(diffs, at, [run |-> run, rows |-> change])
    PROVE  /\ Marked(dumps, diffs2, run) /\ Neighbours(dumps, diffs2) /\ Complete(dumps, diffs2)
           /\ Numbered(dumps, diffs2, run, at + 1, at + 1)
<1>1. /\ DOMAIN diffs2 = DOMAIN diffs \cup {at}
      /\ diffs2[at] = [run |-> run, rows |-> change]
      /\ \A k \in DOMAIN diffs : k # at => diffs2[k] = diffs[k]
  <2> DEFINE entry == [run |-> run, rows |-> change]
  <2>1. diffs2 = Put(diffs, at, entry)
    OBVIOUS
  <2> HIDE DEF entry
  <2>2. /\ DOMAIN diffs2 = DOMAIN diffs \cup {at}
        /\ diffs2[at] = entry
        /\ \A k \in DOMAIN diffs : k # at => diffs2[k] = diffs[k]
    BY ONLY <2>1 DEF Put
  <2> QED
    BY <2>2 DEF entry
<1>2. diffs2[at].run = run /\ diffs2[at].rows = change
  BY <1>1
<1>3. /\ at \in Nat \ {0}
      /\ \A i \in 0..((at + 1) - 1) : i \in DOMAIN dumps /\ dumps[i].run = run
      /\ \A i \in DOMAIN dumps : dumps[i].run = run => i < at + 1
      /\ \A k \in 1..(at - 1) : k \in DOMAIN diffs /\ diffs[k].run = run
      /\ \A k \in DOMAIN diffs : diffs[k].run = run => k < at
  BY DEF Numbered
<1>4. /\ \A i \in DOMAIN dumps : i \in Nat /\ dumps[i].run \in 0..run /\ Whole(dumps[i].chunks)
      /\ \A k \in DOMAIN diffs : /\ k \in Nat \ {0} /\ diffs[k].run \in 0..run
                                 /\ diffs[k].rows \in SUBSET (Nat \X Nat \X Nat)
  BY DEF Marked
<1>5. dumps[0].run = run
  <2>1. 0 \in 0..((at + 1) - 1)
    BY <1>3
  <2> QED
    BY <1>3, <2>1
<1>6. Marked(dumps, diffs2, run)
  <2>1. run \in 0..run
    OBVIOUS
  <2>2. ASSUME NEW k \in DOMAIN diffs2
        PROVE  /\ k \in Nat \ {0} /\ diffs2[k].run \in 0..run
               /\ diffs2[k].rows \in SUBSET (Nat \X Nat \X Nat)
    <3>1. CASE k = at
      BY <1>2, <1>3, <2>1, <3>1
    <3>2. CASE k # at
      BY <1>1, <1>4, <3>2
    <3> QED
      BY <3>1, <3>2
  <2> QED
    BY <1>4, <2>2 DEF Marked
<1>7. Neighbours(dumps, diffs2)
  <2> SUFFICES ASSUME NEW k \in DOMAIN diffs2, diffs2[k].run = dumps[0].run
               PROVE  diffs2[k].rows = Changes(dumps[k - 1].chunks, dumps[k].chunks)
    BY DEF Neighbours
  <2>1. CASE k = at
    BY <1>2, <2>1
  <2>2. CASE k # at
    BY <1>1, <2>2 DEF Neighbours
  <2> QED
    BY <2>1, <2>2
<1>8. ASSUME NEW k \in DOMAIN diffs, diffs[k].run = run
      PROVE  k \in DOMAIN diffs2 /\ diffs2[k].run = run
  BY <1>1, <1>2, <1>8
<1>9. Complete(dumps, diffs2)
  BY <1>5, <1>8 DEF Complete
<1>10. Numbered(dumps, diffs2, run, at + 1, at + 1)
  <2>1. ASSUME NEW k \in 1..at PROVE k \in DOMAIN diffs2 /\ diffs2[k].run = run
    <3>1. k = at \/ k \in 1..(at - 1)
      BY <1>3
    <3> QED
      BY <1>1, <1>2, <1>3, <1>8, <3>1
  <2>2. ASSUME NEW k \in DOMAIN diffs2, diffs2[k].run = run PROVE k < at + 1
    <3>1. CASE k = at
      BY <1>3, <3>1
    <3>2. CASE k # at
      <4>1. k \in DOMAIN diffs /\ k < at /\ k \in Nat
        BY <1>1, <1>3, <1>4, <2>2, <3>2
      <4> QED
        BY <1>3, <4>1
    <3> QED
      BY <3>1, <3>2
  <2>3. (at + 1) - 1 = at /\ at + 1 \in Nat
    BY <1>3
  <2> QED
    BY <1>3, <2>1, <2>2, <2>3 DEF Numbered
<1> QED
  BY <1>6, <1>7, <1>9, <1>10

\* The dump is whole when it is written.
LEMMA SaveDumpStep ==
    ASSUME MemoryTypes, ProgramTypes, DumpInv, SaveDump
    PROVE  DumpInv'
<1> DEFINE dumps == files.dumps
           diffs == files.diffs
           run == bounds.runs
           at == prog.at
           chunks == prog.got
<1>1. /\ prog.kind = "dump" /\ prog.todo = <<>> /\ prog.step = "read"
      /\ ProgBut({"step"}) /\ prog'.step = "compare" /\ FilesBut({"dumps"})
      /\ files'.dumps = Put(dumps, at, [run |-> run, chunks |-> chunks])
      /\ bounds' = bounds
  BY DumpsDo
<1>2. /\ prog'.kind = "dump" /\ prog'.todo = <<>> /\ prog'.got = chunks
      /\ prog'.at = at /\ prog'.prev = prog.prev
  BY <1>1 DEF ProgBut, ProgramTypes
<1>3. files'.diffs = diffs /\ run \in Nat
  BY <1>1 DEF FilesBut, MemoryTypes
<1>4. Whole(chunks)
  <2>1. Range(prog.todo) = {}
    BY <1>1 DEF Range
  <2>2. /\ DOMAIN chunks \subseteq Bases /\ chunks \in [DOMAIN chunks -> Seq(Nat)]
        /\ \A b \in Bases : b \in DOMAIN chunks
        /\ \A b \in DOMAIN chunks : Piece(chunks[b], b)
    BY <1>1, <2>1 DEF DumpInv, Dumping
  <2> HIDE DEF chunks
  <2>3. DOMAIN chunks = Bases
    BY <2>2
  <2> QED
    BY <2>2, <2>3 DEF Whole, WholeDumps
<1>5. /\ Marked(dumps, diffs, run) /\ Neighbours(dumps, diffs) /\ Complete(dumps, diffs)
      /\ Numbered(dumps, diffs, run, at, at)
      /\ prog.prev = IF at = 0 THEN Nothing ELSE dumps[at - 1].chunks
  BY <1>1 DEF DumpInv, SeriesRight, SeriesGoesOn
<1> HIDE DEF dumps, diffs, run, at, chunks
<1>6. /\ Marked(files'.dumps, diffs, run) /\ Neighbours(files'.dumps, diffs)
      /\ Complete(files'.dumps, diffs)
      /\ Numbered(files'.dumps, diffs, run, at, at + 1)
      /\ files'.dumps[at].chunks = chunks
      /\ at # 0 => files'.dumps[at - 1] = dumps[at - 1]
  BY <1>1, <1>3, <1>4, <1>5, OneDumpMore
<1>7. bounds'.runs = run
  BY <1>1 DEF run
<1>8. SeriesRight'
  BY <1>3, <1>6, <1>7 DEF SeriesRight
<1>9. SeriesGoesOn'
  BY <1>1, <1>2, <1>3, <1>5, <1>6, <1>7 DEF SeriesGoesOn
<1>10. Dumping'
  BY <1>1, <1>2 DEF DumpInv, Dumping, chunks
<1> QED
  BY <1>8, <1>9, <1>10 DEF DumpInv

\* A dump that has a piece is something.
LEMMA WholeIsSomething == ASSUME NEW chunks, Whole(chunks) PROVE chunks # Nothing
<1>1. 0 \in Bases
  <2>1. Size \in Nat /\ Chunk \in Nat \ {0} /\ Profiles # {} /\ Profiles \subseteq Words \ {0}
    BY MemoryAssumption
  <2>2. Size # 0
    <3> SUFFICES ASSUME Size = 0 PROVE FALSE
      OBVIOUS
    <3>1. 0..(0 - 1) = {}
      BY ONLY SMT
    <3>2. Words = {}
      BY <3>1 DEF Words
    <3> QED
      BY ONLY <2>1, <3>2
  <2>3. 0 \in 0..(Size - 1) /\ 0 % Chunk = 0
    BY <2>1, <2>2
  <2> QED
    BY <2>3 DEF Bases
<1>2. DOMAIN chunks = Bases
  BY DEF Whole, WholeDumps
<1> QED
  BY <1>1, <1>2 DEF Nothing

\* Its difference is to the dump before, and the next one is read.
LEMMA SaveChangesStep ==
    ASSUME MemoryTypes, ProgramTypes, DumpInv, SaveChanges
    PROVE  DumpInv'
<1> DEFINE dumps == files.dumps
           diffs == files.diffs
           run == bounds.runs
           at == prog.at
<1>1. /\ prog.kind = "dump" /\ prog.step = "compare"
      /\ \/ prog' = Idle
         \/ /\ ProgBut({"todo", "got", "at", "prev", "step"})
            /\ prog'.todo = Pieces(0, Size) /\ prog'.got = <<>>
            /\ prog'.at = at + 1 /\ prog'.prev = prog.got /\ prog'.step = "read"
      /\ FilesBut({"diffs"})
      /\ files'.diffs = IF prog.prev = Nothing THEN diffs
                        ELSE Put(diffs, at, [run |-> run, rows |-> Changes(prog.prev, prog.got)])
      /\ bounds' = bounds
  BY DumpsDo
<1>2. files'.dumps = dumps /\ run \in Nat /\ bounds'.runs = run
  BY <1>1 DEF FilesBut, MemoryTypes
<1>3. /\ Marked(dumps, diffs, run) /\ Neighbours(dumps, diffs) /\ Complete(dumps, diffs)
      /\ Numbered(dumps, diffs, run, at, at + 1)
      /\ prog.prev = IF at = 0 THEN Nothing ELSE dumps[at - 1].chunks
      /\ prog.got = dumps[at].chunks
  BY <1>1 DEF DumpInv, SeriesRight, SeriesGoesOn
<1> HIDE DEF dumps, diffs, run, at
<1>4. at \in Nat /\ \A i \in 0..at : i \in DOMAIN dumps
  <2>1. at \in Nat /\ \A i \in 0..((at + 1) - 1) : i \in DOMAIN dumps
    BY <1>3 DEF Numbered
  <2>2. (at + 1) - 1 = at
    BY <2>1
  <2> QED
    BY <2>1, <2>2
<1>5. /\ Marked(dumps, files'.diffs, run) /\ Neighbours(dumps, files'.diffs)
      /\ Complete(dumps, files'.diffs)
      /\ Numbered(dumps, files'.diffs, run, at + 1, at + 1)
  <2>1. CASE at = 0
    <3>1. files'.diffs = diffs
      BY <1>1, <1>3, <2>1
    <3>2. Numbered(dumps, diffs, run, 1, 1)
      <4>1. /\ \A i \in 0..(1 - 1) : i \in DOMAIN dumps /\ dumps[i].run = run
            /\ \A i \in DOMAIN dumps : dumps[i].run = run => i < 1
            /\ \A k \in DOMAIN diffs : diffs[k].run = run => k < 0
        BY <1>3, <2>1 DEF Numbered
      <4>2. \A k \in DOMAIN diffs : k \in Nat
        BY <1>3 DEF Marked
      <4>3. 1..(1 - 1) = {}
        OBVIOUS
      <4> QED
        BY <4>1, <4>2, <4>3 DEF Numbered
    <3> QED
      BY <1>3, <2>1, <3>1, <3>2
  <2>2. CASE at # 0
    <3> DEFINE old == dumps[at - 1].chunks
               new == dumps[at].chunks
               change == Changes(old, new)
    <3>1. at - 1 \in 0..at /\ at \in 0..at
      BY <1>4, <2>2
    <3>2. Whole(old) /\ Whole(new)
      BY <1>3, <1>4, <3>1 DEF Marked
    <3> HIDE DEF old, new
    <3>3. old # Nothing /\ change \in SUBSET (Nat \X Nat \X Nat)
      BY <3>2, WholeIsSomething, ChangesType DEF Whole, WholeDumps
    <3>4. files'.diffs = Put(diffs, at, [run |-> run, rows |-> change])
      BY <1>1, <1>3, <2>2, <3>3 DEF old, new
    <3> HIDE DEF change
    <3>5. change = Changes(dumps[at - 1].chunks, dumps[at].chunks)
      BY DEF change, old, new
    <3> QED
      BY <1>2, <1>3, <2>2, <3>3, <3>4, <3>5, OneDifferenceMore
  <2> QED
    BY <2>1, <2>2
<1>6. SeriesRight'
  BY <1>2, <1>5 DEF SeriesRight
<1>7. CASE prog' = Idle
  BY <1>6, <1>7 DEF DumpInv, Dumping, SeriesGoesOn, Idle
<1>8. CASE /\ ProgBut({"todo", "got", "at", "prev", "step"})
           /\ prog'.todo = Pieces(0, Size) /\ prog'.got = <<>>
           /\ prog'.at = at + 1 /\ prog'.prev = prog.got /\ prog'.step = "read"
  <2>1. prog'.got \in [DOMAIN prog'.got -> Seq(Nat)] /\ DOMAIN prog'.got = {}
    BY <1>8
  <2>2. Dumping'
    BY <1>8, <2>1, PiecesToRead DEF Dumping
  <2>3. at + 1 # 0 /\ (at + 1) - 1 = at
    BY <1>4
  <2>4. SeriesGoesOn'
    BY <1>2, <1>3, <1>5, <1>8, <2>3 DEF SeriesGoesOn
  <2> QED
    BY <1>6, <2>2, <2>4 DEF DumpInv
<1> QED
  BY <1>1, <1>7, <1>8

\* The game writes in between: no dump promises anything of it.
LEMMA DumpsPlayed ==
    ASSUME MemoryTypes, ProgramTypes, DumpInv, NEW w \in Words, NEW v \in Nat, Played(w, v)
    PROVE  DumpInv'
<1>1. FilesBut({}) /\ bounds'.runs = bounds.runs
  BY DEF Played
<1>2. SeriesRight' /\ files'.dumps = files.dumps /\ files'.diffs = files.diffs
  BY <1>1, DumpGoesOn DEF DumpInv
<1>3. CASE prog.kind # "dump"
  <2>1. prog'.kind # "dump"
    BY <1>3 DEF Played, ProgBut, ProgramTypes, Idle
  <2>2. Dumping' /\ SeriesGoesOn'
    BY <2>1 DEF Dumping, SeriesGoesOn
  <2> QED
    BY <1>2, <2>2 DEF DumpInv
<1>4. CASE prog.kind = "dump"
  <2>1. /\ prog'.todo = prog.todo /\ prog'.got = prog.got /\ prog'.at = prog.at
        /\ prog'.prev = prog.prev /\ prog'.step = prog.step
    BY <1>4 DEF Played, ProgBut, ProgramTypes
  <2>2. Dumping'
    BY <1>4, <2>1 DEF DumpInv, Dumping
  <2>3. SeriesGoesOn'
    BY <1>1, <1>2, <1>4, <2>1 DEF DumpInv, SeriesGoesOn
  <2> QED
    BY <1>2, <2>2, <2>3 DEF DumpInv
<1> QED
  BY <1>3, <1>4
-----------------------------------------------------------------------------
(* The watchers: words read in their order, pass after pass.               *)
LEMMA PassStarts ==
    ASSUME NEW slots \in Seq(Words), prog'.todo = slots, prog'.got = <<>>
    PROVE  Following(slots)'
<1>1. Len(<<>>) = 0 /\ Len(slots) \in Nat /\ <<>> \in Seq(Nat)
  OBVIOUS
<1>2. SubSeq(slots, 0 + 1, Len(slots)) = slots
  OBVIOUS
<1> QED
  BY <1>1, <1>2 DEF Following

\* The next word is read.
LEMMA PassGoesOn ==
    ASSUME MemoryTypes, NEW slots \in Seq(Words), Following(slots), prog.todo # <<>>,
           prog'.todo = Tail(prog.todo), prog'.got = Append(prog.got, game[Head(prog.todo)]),
           prog'.steady = prog.steady, game' = game
    PROVE  Following(slots)'
<1> DEFINE got == prog.got
           got2 == prog'.got
           n == Len(got)
           m == Len(slots)
<1>1. /\ got \in Seq(Nat) /\ n \in Nat /\ m \in Nat /\ n <= m
      /\ prog.todo = SubSeq(slots, n + 1, m)
      /\ \A j \in 1..n : slots[j] \in prog.steady => got[j] = game[slots[j]]
  BY DEF Following
<1> DEFINE s == SubSeq(slots, n + 1, m)
<1> HIDE DEF got, n, m
<1>2. n + 1 <= m
  <2> SUFFICES ASSUME ~(n + 1 <= m) PROVE FALSE
    OBVIOUS
  <2>1. s = <<>>
    BY <1>1
  <2> QED
    BY <1>1, <2>1
<1>3. /\ s \in Seq(Words) /\ Len(s) = m - n
      /\ \A i \in 1..(m - n) : s[i] = slots[n + i]
  BY <1>1, <1>2 DEF m
<1>4. Head(s) = slots[n + 1] /\ n + 1 \in 1..m /\ slots[n + 1] \in Words
  <2>1. 1 \in 1..(m - n)
    BY <1>1, <1>2
  <2>2. Head(s) = s[1]
    BY <1>3, <2>1
  <2> QED
    BY <1>1, <1>2, <1>3, <2>1, <2>2 DEF m
<1>5. Tail(s) = SubSeq(slots, (n + 1) + 1, m)
  <2> DEFINE t == SubSeq(slots, (n + 1) + 1, m)
  <2> HIDE DEF s
  <2>1. /\ Tail(s) \in Seq(Words) /\ Len(Tail(s)) = (m - n) - 1
        /\ \A i \in 1..((m - n) - 1) : Tail(s)[i] = s[i + 1]
    BY <1>1, <1>2, <1>3
  <2>2. /\ t \in Seq(Words) /\ Len(t) = m - (n + 1)
        /\ \A i \in 1..(m - (n + 1)) : t[i] = slots[(n + 1) + i]
    <3>1. n + 2 \in 1..(m + 1) /\ m \in 0..m /\ m = Len(slots) /\ (n + 1) + 1 = n + 2
      BY <1>1, <1>2 DEF m
    <3>2. /\ SubSeq(slots, n + 2, m) \in Seq(Words)
          /\ Len(SubSeq(slots, n + 2, m)) = IF n + 2 <= m THEN m - (n + 2) + 1 ELSE 0
          /\ \A i \in 1..(m - (n + 2) + 1) : SubSeq(slots, n + 2, m)[i] = slots[n + 2 + i - 1]
      BY <3>1, SubSeqProperties
    <3>3. m - (n + 1) = m - (n + 2) + 1 /\ \A i \in Int : (n + 1) + i = n + 2 + i - 1
      <4>1. n \in Nat /\ m \in Nat
        BY <1>1
      <4> QED
        BY ONLY <4>1
    <3>4. n + 2 <= m \/ m - (n + 1) = 0
      BY <1>1, <1>2
    <3> QED
      BY <1>1, <3>1, <3>2, <3>3, <3>4
  <2>3. ASSUME NEW i \in 1..((m - n) - 1) PROVE Tail(s)[i] = t[i]
    <3>1. i + 1 \in 1..(m - n) /\ n + (i + 1) = (n + 1) + i /\ i \in 1..(m - (n + 1))
      <4>1. n \in Nat /\ m \in Nat
        BY <1>1
      <4> QED
        BY ONLY <1>2, <4>1, i \in 1..((m - n) - 1)
    <3> QED
      BY <1>3, <2>1, <2>2, <3>1
  <2>4. (m - n) - 1 = m - (n + 1)
    BY <1>1
  <2> HIDE DEF s, t
  <2>5. Tail(s) = t
    BY <2>1, <2>2, <2>3, <2>4, SeqEqual
  <2> QED
    BY <2>5 DEF t
<1>6. /\ game[slots[n + 1]] \in Nat /\ got2 = Append(got, game[slots[n + 1]])
      /\ prog'.todo = SubSeq(slots, (n + 1) + 1, m)
  BY <1>1, <1>4, <1>5 DEF MemoryTypes, got
<1> HIDE DEF s, got2
<1>7. /\ got2 \in Seq(Nat) /\ Len(got2) = n + 1 /\ got2[n + 1] = game[slots[n + 1]]
      /\ \A j \in 1..n : got2[j] = got[j]
  BY <1>1, <1>6 DEF n
<1>8. ASSUME NEW j \in 1..(n + 1), slots[j] \in prog'.steady PROVE got2[j] = game'[slots[j]]
  <2>1. CASE j = n + 1
    BY <1>7, <2>1
  <2>2. CASE j # n + 1
    <3>1. j \in 1..n
      BY <1>1, <2>2
    <3> QED
      BY <1>1, <1>7, <1>8, <3>1
  <2> QED
    BY <2>1, <2>2
<1> QED
  BY <1>2, <1>6, <1>7, <1>8 DEF Following, got2, m

\* At the end all of them are.
LEMMA PassEnds ==
    ASSUME NEW slots \in Seq(Words), Following(slots), prog.todo = <<>>
    PROVE  Len(prog.got) = Len(slots)
<1> DEFINE n == Len(prog.got)
           m == Len(slots)
           s == SubSeq(slots, n + 1, m)
<1>1. n \in Nat /\ m \in Nat /\ n <= m /\ s = <<>>
  <2>1. prog.got \in Seq(Nat) /\ n <= m /\ prog.todo = s
    BY DEF Following
  <2>2. n \in Nat /\ m \in Nat
    BY <2>1
  <2>3. s = <<>>
    <3> HIDE DEF s
    <3> QED
      BY <2>1
  <2> QED
    BY <2>1, <2>2, <2>3
<1>2. ~(n + 1 <= m)
  <2> SUFFICES ASSUME n + 1 <= m PROVE FALSE
    OBVIOUS
  <2> HIDE DEF n
  <2>1. Len(s) = m - n /\ Len(<<>>) = 0
    BY <1>1
  <2> HIDE DEF s
  <2> QED
    BY <1>1, <2>1
<1> QED
  BY <1>1, <1>2

\* The game writes in between.
LEMMA PassPlayed ==
    ASSUME MemoryTypes, ProgramTypes, NEW slots, Following(slots),
           NEW w \in Words, NEW v \in Nat, game' = [game EXCEPT ![w] = v],
           prog'.todo = prog.todo, prog'.got = prog.got,
           prog'.steady = prog.steady \ {w}, prog.steady \subseteq Words
    PROVE  Following(slots)'
<1>1. \A x \in prog'.steady : x \in prog.steady /\ game'[x] = game[x]
  BY DEF MemoryTypes
<1> QED
  BY <1>1 DEF Following

\* The garage's lines: one more makes up for what is different.
LEMMA OneLineMore ==
    ASSUME NEW log1 \in [first : SUBSET Nat, last : SUBSET Nat, lines : Seq(LineRecords)],
           NEW log2 \in [first : SUBSET Nat, last : SUBSET Nat, lines : Seq(LineRecords)],
           Replayed(log1) = log1.last, log2.first = log1.first,
           log2.lines = Append(log1.lines, Line(log1.last, log2.last))
    PROVE  Replayed(log2) = log2.last
<1> DEFINE n == Len(log1.lines)
           lines == log1.lines
           lines2 == log2.lines
           last == log1.last
           now == log2.last
           naming(v) == {k \in DOMAIN lines : v \in lines[k].added \cup lines[k].removed}
           naming2(v) == {k \in DOMAIN lines2 : v \in lines2[k].added \cup lines2[k].removed}
           added == UNION {lines[k].added : k \in DOMAIN lines}
           added2 == UNION {lines2[k].added : k \in DOMAIN lines2}
<1>1. /\ lines \in Seq(LineRecords) /\ n \in Nat /\ DOMAIN lines = 1..n
      /\ last \in SUBSET Nat /\ now \in SUBSET Nat
  OBVIOUS
<1>2. /\ Replayed(log1) = {v \in log1.first \cup added :
            IF naming(v) = {} THEN v \in log1.first ELSE v \in lines[Max(naming(v))].added}
      /\ Replayed(log2) = {v \in log1.first \cup added2 :
            IF naming2(v) = {} THEN v \in log1.first ELSE v \in lines2[Max(naming2(v))].added}
  BY DEF Replayed
<1> DEFINE line == Line(last, now)
<1>3. line \in LineRecords /\ line.added = now \ last /\ line.removed = last \ now
  BY <1>1 DEF Line, LineRecords
<1>4. lines2 = Append(lines, line)
  OBVIOUS
<1> HIDE DEF line, lines, n, lines2, last, now
<1>5. /\ DOMAIN lines2 = 1..(n + 1) /\ lines2[n + 1] = line
      /\ \A k \in 1..n : lines2[k] = lines[k]
  BY <1>1, <1>3, <1>4 DEF n
<1>6. 1..(n + 1) = (1..n) \cup {n + 1} /\ n + 1 \notin 1..n
  BY <1>1
<1>7. added2 = added \cup (now \ last)
  <2>1. \A x : x \in added2 <=> \E k \in (1..n) \cup {n + 1} : x \in lines2[k].added
    BY <1>5, <1>6
  <2>2. \A x : x \in added <=> \E k \in 1..n : x \in lines[k].added
    BY <1>1
  <2> HIDE DEF added, added2
  <2>3. \A x : x \in added2 <=> x \in added \/ x \in now \ last
    BY <1>3, <1>5, <2>1, <2>2
  <2> QED
    BY <2>3
<1>8. IsFiniteSet(1..(n + 1)) /\ 1..(n + 1) \in SUBSET Nat
  <2>1. 1 \in Int /\ n + 1 \in Int
    BY <1>1
  <2>2. IsFiniteSet(1..(n + 1))
    BY ONLY <2>1, FS_Interval
  <2> QED
    BY <2>2
<1>9. ASSUME NEW v
      PROVE  v \in Replayed(log2) <=> v \in now
  <2>1. naming2(v) = naming(v) \cup {k \in {n + 1} : v \in (now \ last) \cup (last \ now)}
    BY <1>1, <1>3, <1>5, <1>6
  <2>2. CASE v \in (now \ last) \cup (last \ now)
    <3>1. n + 1 \in naming2(v) /\ naming2(v) \in SUBSET (1..(n + 1))
      BY <1>5, <2>1, <2>2
    <3> DEFINE S == naming2(v)
    <3>2. IsFiniteSet(S) /\ S \in SUBSET Nat
      <4> HIDE DEF S
      <4>1. S \in SUBSET (1..(n + 1))
        BY <3>1 DEF S
      <4>2. IsFiniteSet(S)
        BY ONLY <1>8, <4>1, FS_Subset
      <4> QED
        BY <1>8, <4>1, <4>2
    <3>3. Max(S) = n + 1
      <4> HIDE DEF S
      <4>1. n + 1 \in S /\ S \in SUBSET (1..(n + 1))
        BY <3>1 DEF S
      <4>2. Max(S) \in S /\ n + 1 <= Max(S)
        BY <3>2, <4>1, LeastAndGreatest
      <4>3. Max(S) \in 1..(n + 1)
        BY <4>1, <4>2
      <4> QED
        BY <1>1, <4>2, <4>3
    <3>4. v \in Replayed(log2) <=> v \in log1.first \cup added2 /\ v \in lines2[n + 1].added
      BY <1>2, <3>1, <3>3
    <3> QED
      BY <1>3, <1>5, <1>7, <2>2, <3>4
  <2>3. CASE v \notin (now \ last) \cup (last \ now)
    <3>1. naming2(v) = naming(v)
      BY <2>1, <2>3
    <3>2. v \in log1.first \cup added2 <=> v \in log1.first \cup added
      BY <1>7, <2>3
    <3>3. naming(v) # {} => Max(naming(v)) \in 1..n
      <4> DEFINE S == naming(v)
      <4>1. S \in SUBSET (1..n)
        BY <1>1
      <4> HIDE DEF S
      <4>0. S \in SUBSET (1..(n + 1))
        BY <1>6, <4>1
      <4>2. IsFiniteSet(S) /\ S \in SUBSET Nat
        <5>1. IsFiniteSet(S)
          BY ONLY <1>8, <4>0, FS_Subset
        <5> QED
          BY <4>1, <5>1
      <4>3. S # {} => Max(S) \in S
        BY <4>2, LeastAndGreatest
      <4> QED
        BY <4>1, <4>3 DEF S
    <3>4. naming(v) # {} => lines2[Max(naming(v))] = lines[Max(naming(v))]
      BY <1>5, <3>3
    <3> HIDE DEF added, added2
    <3>5. v \in Replayed(log1) <=>
             /\ v \in log1.first \cup added
             /\ IF naming(v) = {} THEN v \in log1.first ELSE v \in lines[Max(naming(v))].added
      BY <1>2
    <3>6. v \in Replayed(log2) <=>
             /\ v \in log1.first \cup added2
             /\ IF naming2(v) = {} THEN v \in log1.first ELSE v \in lines2[Max(naming2(v))].added
      BY <1>2
    <3> HIDE DEF naming, naming2
    <3>7. v \in Replayed(log2) <=> v \in Replayed(log1)
      BY <3>1, <3>2, <3>4, <3>5, <3>6
    <3> QED
      BY <2>3, <3>7 DEF last
  <2> QED
    BY <2>2, <2>3
<1>10. Replayed(log2) \subseteq now /\ now \subseteq Replayed(log2)
  BY <1>9
<1> QED
  BY <1>10 DEF now

\* What an event adds to the sum and to what was told.
Named(s, name) == {k \in DOMAIN s : s[k][1] = name}
\* With one more event.
LEMMA AppendFacts ==
    ASSUME NEW s \in Seq(EventRecords), NEW e \in EventRecords, NEW base \in Int, NEW name
    PROVE  /\ Append(s, e) \in Seq(EventRecords) /\ Len(Append(s, e)) = Len(s) + 1
           /\ Len(s) \in Nat /\ Sum(base, Append(s, e)) = Sum(base, s) + Amount(e)
           /\ Sum(base, s) \in Int
           /\ e[1] # name => Named(Append(s, e), name) = Named(s, name)
           /\ e[1] = name => Named(Append(s, e), name) = Named(s, name) \cup {Len(s) + 1}
           /\ Named(s, name) \subseteq 1..Len(s)
<1> DEFINE r == Append(s, e)
<1> DEFINE n == Len(s)
<1>1. n \in Nat /\ DOMAIN s = 1..n /\ Named(s, name) \subseteq 1..n
  BY DEF Named
<1>2. Sum(base, s) \in Int /\ Sum(base, r) = Sum(base, s) + Amount(e)
  BY SumOfAppend
<1>3. /\ r \in Seq(EventRecords) /\ Len(r) = n + 1 /\ DOMAIN r = 1..(n + 1)
      /\ r[n + 1] = e /\ \A k \in 1..n : r[k] = s[k]
  BY <1>1
<1>4. 1..(n + 1) = (1..n) \cup {n + 1}
  BY <1>1
<1> HIDE DEF n, r
<1>5. \A k : k \in Named(r, name) <=> k \in (1..n) \cup {n + 1} /\ r[k][1] = name
  BY <1>3, <1>4 DEF Named
<1>6. \A k : k \in Named(s, name) <=> k \in 1..n /\ s[k][1] = name
  BY <1>1 DEF Named
<1>7. r[n + 1] = e /\ \A k \in 1..n : r[k] = s[k]
  BY <1>3
<1>8. \A k : k \in Named(r, name) <=> k \in Named(s, name) \/ (k = n + 1 /\ e[1] = name)
  BY ONLY <1>5, <1>6, <1>7
<1>9. /\ e[1] # name => Named(r, name) = Named(s, name)
      /\ e[1] = name => Named(r, name) = Named(s, name) \cup {n + 1}
  BY ONLY <1>8
<1> QED
  BY <1>1, <1>2, <1>3, <1>9 DEF n, r

\* An event that is not told leaves everything as it is.
LEMMA WhenFacts ==
    ASSUME NEW s \in Seq(EventRecords), NEW e
    PROVE  /\ s \o When(TRUE, e) = Append(s, e)
           /\ s \o When(FALSE, e) = s
<1>1. s \o <<>> = s
  BY ConcatEmptySeq
<1>2. Append(s, e) = s \o <<e>>
  OBVIOUS
<1> QED
  BY <1>1, <1>2 DEF When

\* A poll makes one more record; its money events make up for the difference, and
\* it tells of a race when it remembers one and did not before.
LEMMA PollFacts ==
    ASSUME NEW log1 \in EventLogs,
           Len(log1.last) = 4, Sum(log1.first, log1.events) = log1.last[1],
           NEW now \in Seq(Nat), Len(now) = 4
    PROVE  LET log2 == Polled(log1, now) IN
           /\ log2 \in EventLogs /\ log2.polls = 1
           /\ log2.last = now /\ log2.racing = (now[2] < FreeRoam)
           /\ Sum(log2.first, log2.events) = now[1]
           /\ IF log2.racing /\ ~log1.racing
              THEN Named(log2.events, "race_start") # Named(log1.events, "race_start")
              ELSE Named(log2.events, "race_start") = Named(log1.events, "race_start")
<1> DEFINE racing == now[2] < FreeRoam
           race == "race_start"
           e1 == <<"money", now[1] - log1.last[1]>>
           e2 == <<"race_start", 0>>
           e3 == <<"race_finish", now[4]>>
           e4 == <<"position", now[4]>>
           c1 == now[1] # log1.last[1]
           c2 == racing /\ ~log1.racing
           c3 == now[3] # log1.last[3] /\ now[3] = Over
           c4 == now[4] # log1.last[4] /\ racing
           s0 == log1.events
           s1 == s0 \o When(c1, e1)
           s2 == s1 \o When(c2, e2)
           s3 == s2 \o When(c3, e3)
           s4 == s3 \o When(c4, e4)
           base == log1.first
           log2 == Polled(log1, now)
           N(s) == Named(s, race)
<1> USE DEF EventLogs
<1>1. log2 = [log1 EXCEPT !.last = now, !.racing = racing, !.polls = 1, !.events = s4]
  BY DEF Polled
<1>2. /\ s0 \in Seq(EventRecords) /\ base \in Int /\ log1.racing \in BOOLEAN
      /\ now[1] \in Nat /\ now[4] \in Nat /\ log1.last[1] \in Nat
  <2>1. \A q \in Seq(Nat) : \A i \in 1..Len(q) : q[i] \in Nat
    OBVIOUS
  <2>2. log1.last \in Seq(Nat) /\ 1 \in 1..4 /\ 4 \in 1..4
    OBVIOUS
  <2>3. now[1] \in Nat /\ now[4] \in Nat
    BY <2>1, <2>2
  <2>4. log1.last[1] \in Nat
    BY <2>1, <2>2
  <2> QED
    BY <2>3, <2>4
<1>3. racing \in BOOLEAN
  OBVIOUS
<1>4. /\ log2.first = base /\ log2.last = now /\ log2.racing = racing /\ log2.events = s4
      /\ log2 = [first |-> base, last |-> now, racing |-> racing, events |-> s4, polls |-> 1]
  BY <1>1
<1> HIDE DEF racing, base, s0, log2
<1>5. /\ e1 \in EventRecords /\ e2 \in EventRecords
      /\ e3 \in EventRecords /\ e4 \in EventRecords
      /\ Amount(e1) = now[1] - log1.last[1] /\ Amount(e2) = 0
      /\ Amount(e3) = 0 /\ Amount(e4) = 0
  BY <1>2 DEF EventRecords, Amount
<1>6. e1[1] # race /\ e2[1] = race /\ e3[1] # race /\ e4[1] # race
  OBVIOUS
<1>7. /\ (c1 => s1 = s0 \o When(TRUE, e1)) /\ (~c1 => s1 = s0 \o When(FALSE, e1))
      /\ (c2 => s2 = s1 \o When(TRUE, e2)) /\ (~c2 => s2 = s1 \o When(FALSE, e2))
  BY DEF When
<1>8. /\ (c3 => s3 = s2 \o When(TRUE, e3)) /\ (~c3 => s3 = s2 \o When(FALSE, e3))
      /\ (c4 => s4 = s3 \o When(TRUE, e4)) /\ (~c4 => s4 = s3 \o When(FALSE, e4))
  BY DEF When
<1> HIDE DEF e1, e2, e3, e4, c2, c3, c4, s1, s2, s3, s4, N
<1>9. /\ s1 \in Seq(EventRecords) /\ Sum(base, s1) = now[1]
      /\ N(s1) = N(s0) /\ Len(s1) + 1 \notin N(s0)
  <2>1. Sum(base, s0) = log1.last[1]
    BY DEF base, s0
  <2>2. CASE c1
    <3>1. s1 = Append(s0, e1)
      BY <1>2, <1>7, <2>2, WhenFacts
    <3> HIDE DEF c1
    <3>2. /\ s1 \in Seq(EventRecords) /\ Len(s1) = Len(s0) + 1 /\ Len(s0) \in Nat
          /\ Sum(base, s1) = Sum(base, s0) + Amount(e1)
          /\ Named(s1, race) = Named(s0, race) /\ Named(s0, race) \subseteq 1..Len(s0)
      <4>1. s0 \in Seq(EventRecords)
        BY <1>2
      <4>2. e1 \in EventRecords /\ base \in Int
        BY <1>2, <1>5
      <4>3. /\ Append(s0, e1) \in Seq(EventRecords) /\ Len(Append(s0, e1)) = Len(s0) + 1
            /\ Len(s0) \in Nat /\ Sum(base, Append(s0, e1)) = Sum(base, s0) + Amount(e1)
            /\ Sum(base, s0) \in Int
            /\ e1[1] # race => Named(Append(s0, e1), race) = Named(s0, race)
            /\ e1[1] = race =>
                  Named(Append(s0, e1), race) = Named(s0, race) \cup {Len(s0) + 1}
            /\ Named(s0, race) \subseteq 1..Len(s0)
        BY ONLY <4>1, <4>2, AppendFacts
      <4> QED
        BY <1>6, <3>1, <4>3
    <3>3. Sum(base, s1) = now[1]
      BY <1>2, <1>5, <2>1, <3>2
    <3> QED
      BY <3>2, <3>3 DEF N
  <2>3. CASE ~c1
    <3>1. s1 = s0 /\ now[1] = log1.last[1]
      BY <1>2, <1>7, <2>3, WhenFacts
    <3>2. Len(s0) \in Nat /\ Named(s0, race) \subseteq 1..Len(s0)
      BY <1>2 DEF Named
    <3> QED
      BY <1>2, <2>1, <3>1, <3>2 DEF N
  <2> QED
    BY <2>2, <2>3
<1>10. /\ s2 \in Seq(EventRecords) /\ Sum(base, s2) = Sum(base, s1)
       /\ c2 => N(s2) = N(s1) \cup {Len(s1) + 1}
       /\ ~c2 => N(s2) = N(s1)
  <2>1. CASE c2
    <3>1. s2 = Append(s1, e2)
      BY <1>7, <1>9, <2>1, WhenFacts
    <3>2. /\ s2 \in Seq(EventRecords) /\ Sum(base, s2) = Sum(base, s1) + Amount(e2)
          /\ Sum(base, s1) \in Int /\ Named(s2, race) = Named(s1, race) \cup {Len(s1) + 1}
      <4>1. s1 \in Seq(EventRecords)
        BY <1>9
      <4>2. e2 \in EventRecords /\ base \in Int
        BY <1>2, <1>5
      <4>3. /\ Append(s1, e2) \in Seq(EventRecords) /\ Len(Append(s1, e2)) = Len(s1) + 1
            /\ Len(s1) \in Nat /\ Sum(base, Append(s1, e2)) = Sum(base, s1) + Amount(e2)
            /\ Sum(base, s1) \in Int
            /\ e2[1] # race => Named(Append(s1, e2), race) = Named(s1, race)
            /\ e2[1] = race =>
                  Named(Append(s1, e2), race) = Named(s1, race) \cup {Len(s1) + 1}
            /\ Named(s1, race) \subseteq 1..Len(s1)
        BY ONLY <4>1, <4>2, AppendFacts
      <4> QED
        BY <1>6, <3>1, <4>3
    <3> QED
      BY <1>5, <2>1, <3>2 DEF N
  <2>2. CASE ~c2
    BY <1>7, <1>9, <2>2, WhenFacts
  <2> QED
    BY <2>1, <2>2
<1>11. s3 \in Seq(EventRecords) /\ Sum(base, s3) = Sum(base, s2) /\ N(s3) = N(s2)
  <2>1. CASE c3
    <3>1. s3 = Append(s2, e3)
      BY <1>8, <1>10, <2>1, WhenFacts
    <3>2. /\ s3 \in Seq(EventRecords) /\ Sum(base, s3) = Sum(base, s2) + Amount(e3)
          /\ Sum(base, s2) \in Int /\ Named(s3, race) = Named(s2, race)
      <4>1. s2 \in Seq(EventRecords)
        BY <1>10
      <4>2. e3 \in EventRecords /\ base \in Int
        BY <1>2, <1>5
      <4>3. /\ Append(s2, e3) \in Seq(EventRecords) /\ Len(Append(s2, e3)) = Len(s2) + 1
            /\ Len(s2) \in Nat /\ Sum(base, Append(s2, e3)) = Sum(base, s2) + Amount(e3)
            /\ Sum(base, s2) \in Int
            /\ e3[1] # race => Named(Append(s2, e3), race) = Named(s2, race)
            /\ e3[1] = race =>
                  Named(Append(s2, e3), race) = Named(s2, race) \cup {Len(s2) + 1}
            /\ Named(s2, race) \subseteq 1..Len(s2)
        BY ONLY <4>1, <4>2, AppendFacts
      <4> QED
        BY <1>6, <3>1, <4>3
    <3> QED
      BY <1>5, <3>2 DEF N
  <2>2. CASE ~c3
    BY <1>8, <1>10, <2>2, WhenFacts
  <2> QED
    BY <2>1, <2>2
<1>12. s4 \in Seq(EventRecords) /\ Sum(base, s4) = Sum(base, s3) /\ N(s4) = N(s3)
  <2>1. CASE c4
    <3>1. s4 = Append(s3, e4)
      BY <1>8, <1>11, <2>1, WhenFacts
    <3>2. /\ s4 \in Seq(EventRecords) /\ Sum(base, s4) = Sum(base, s3) + Amount(e4)
          /\ Sum(base, s3) \in Int /\ Named(s4, race) = Named(s3, race)
      <4>1. s3 \in Seq(EventRecords)
        BY <1>11
      <4>2. e4 \in EventRecords /\ base \in Int
        BY <1>2, <1>5
      <4>3. /\ Append(s3, e4) \in Seq(EventRecords) /\ Len(Append(s3, e4)) = Len(s3) + 1
            /\ Len(s3) \in Nat /\ Sum(base, Append(s3, e4)) = Sum(base, s3) + Amount(e4)
            /\ Sum(base, s3) \in Int
            /\ e4[1] # race => Named(Append(s3, e4), race) = Named(s3, race)
            /\ e4[1] = race =>
                  Named(Append(s3, e4), race) = Named(s3, race) \cup {Len(s3) + 1}
            /\ Named(s3, race) \subseteq 1..Len(s3)
        BY ONLY <4>1, <4>2, AppendFacts
      <4> QED
        BY <1>6, <3>1, <4>3
    <3> QED
      BY <1>5, <3>2 DEF N
  <2>2. CASE ~c4
    BY <1>8, <1>11, <2>2, WhenFacts
  <2> QED
    BY <2>1, <2>2
<1>13. Sum(base, s4) = now[1] /\ IF c2 THEN N(s4) # N(s0) ELSE N(s4) = N(s0)
  BY <1>9, <1>10, <1>11, <1>12
<1>14. log2 \in EventLogs /\ log2.polls = 1
  BY <1>2, <1>3, <1>4, <1>12
<1> QED
  BY <1>4, <1>13, <1>14 DEF racing, log2, c2, s0, race, base, N

\* The other programs keep what holds of the watchers.
LEMMA WatchersElsewhere ==
    ASSUME LinesAddUp, EventsAddUp, files'.garage = files.garage,
           files'.heard = files.heard, prog'.kind \notin {"monitor", "listener"}
    PROVE  Watching' /\ LinesAddUp' /\ EventsAddUp'
BY DEF Watching, LinesAddUp, EventsAddUp

\* A watcher reads its next word.
LEMMA WatcherGoesOn ==
    ASSUME MemoryTypes, ProgramTypes, Watching, LinesAddUp, EventsAddUp, ReadSlot \/ Hear
    PROVE  Watching' /\ LinesAddUp' /\ EventsAddUp'
<1>1. /\ ReadSlot => prog.kind = "monitor"
      /\ Hear => prog.kind = "listener"
      /\ prog.todo # <<>> /\ ProgBut({"todo", "got"})
      /\ prog'.todo = Tail(prog.todo)
      /\ prog'.got = Append(prog.got, game[Head(prog.todo)])
      /\ FilesBut({}) /\ game' = game
  BY WatchersDo DEF Kept
<1>2. prog'.kind = prog.kind /\ prog'.steady = prog.steady
  BY <1>1 DEF ProgBut, ProgramTypes
<1>3. LinesAddUp' /\ EventsAddUp'
  <2>1. files'.garage = files.garage /\ files'.heard = files.heard
    BY <1>1 DEF FilesBut, MemoryTypes
  <2> QED
    BY <2>1 DEF LinesAddUp, EventsAddUp
<1>4. GarageSlots \in Seq(Words) /\ Heard \in Seq(Words)
  BY MemoryAssumption
<1>5. prog.kind = "monitor" => Following(GarageSlots)'
  BY <1>1, <1>2, <1>4, PassGoesOn DEF Watching
<1>6. prog.kind = "listener" => Following(Heard)'
  BY <1>1, <1>2, <1>4, PassGoesOn DEF Watching
<1> QED
  BY <1>2, <1>3, <1>5, <1>6 DEF Watching

\* It starts, with no log.
LEMMA StartWatchingStep ==
    ASSUME MemoryTypes, ProgramTypes, LinesAddUp, EventsAddUp, StartMonitor \/ StartListening
    PROVE  Watching' /\ LinesAddUp' /\ EventsAddUp'
<1>0. GarageSlots \in Seq(Words) /\ Heard \in Seq(Words)
  BY MemoryAssumption
<1>1. CASE StartMonitor
  <2>1. /\ Started("monitor", "garage", GarageSlots)
        /\ FilesBut({"garage"}) /\ files'.garage = Nothing
    BY <1>1, WatchersDo
  <2>2. files'.heard = files.heard
    BY <2>1 DEF FilesBut, MemoryTypes
  <2>3. prog'.kind = "monitor" /\ prog'.todo = GarageSlots /\ prog'.got = <<>>
    BY <2>1 DEF Started
  <2>4. Following(GarageSlots)'
    BY <1>0, <2>3, PassStarts
  <2> QED
    BY <2>1, <2>2, <2>3, <2>4 DEF Watching, LinesAddUp, EventsAddUp
<1>2. CASE StartListening
  <2>1. /\ Started("listener", "events", Heard)
        /\ FilesBut({"heard"}) /\ files'.heard = Nothing
    BY <1>2, WatchersDo
  <2>2. files'.garage = files.garage
    BY <2>1 DEF FilesBut, MemoryTypes
  <2>3. prog'.kind = "listener" /\ prog'.todo = Heard /\ prog'.got = <<>>
    BY <2>1 DEF Started
  <2>4. Following(Heard)'
    BY <1>0, <2>3, PassStarts
  <2> QED
    BY <2>1, <2>2, <2>3, <2>4 DEF Watching, LinesAddUp, EventsAddUp
<1> QED
  BY <1>1, <1>2

\* A pass: what it leaves is what it read.
LEMMA EndPassStep ==
    ASSUME MemoryTypes, ProgramTypes, Watching, LinesAddUp, EventsAddUp, EndPass
    PROVE  /\ Watching' /\ LinesAddUp' /\ EventsAddUp'
           /\ Replayed(files'.garage) = Owned(prog.got)
<1> DEFINE now == Owned(prog.got)
           log1 == files.garage
           log2 == files'.garage
<1>1. /\ prog.kind = "monitor" /\ prog.todo = <<>> /\ PassEnded(GarageSlots)
      /\ FilesBut({"garage"})
  BY WatchersDo
<1>2. log2 = IF log1 = Nothing THEN [first |-> now, last |-> now, lines |-> <<>>]
             ELSE IF now = log1.last THEN log1
             ELSE [log1 EXCEPT !.last = now, !.lines = Append(@, Line(log1.last, now))]
  BY DEF EndPass, MemoryTypes
<1>3. now \in SUBSET Nat
  <2>1. prog.got \in Seq(Nat)
    BY <1>1 DEF Watching, Following
  <2> QED
    BY <2>1 DEF Owned, Range
<1>4. log1 # Nothing =>
         /\ log1 \in [first : SUBSET Nat, last : SUBSET Nat, lines : Seq(LineRecords)]
         /\ Replayed(log1) = log1.last
  BY DEF LinesAddUp
<1> HIDE DEF now, log1, log2
<1>5. /\ log2 \in [first : SUBSET Nat, last : SUBSET Nat, lines : Seq(LineRecords)]
      /\ Replayed(log2) = log2.last /\ log2.last = now
  <2>1. CASE log1 = Nothing
    <3>1. log2 = [first |-> now, last |-> now, lines |-> <<>>]
      BY <1>2, <2>1
    <3>2. /\ log2 \in [first : SUBSET Nat, last : SUBSET Nat, lines : Seq(LineRecords)]
          /\ log2.first = now /\ log2.last = now /\ log2.lines = <<>>
      BY <1>3, <3>1
    <3>3. DOMAIN log2.lines = {}
      BY <3>2
    <3>4. Replayed(log2) = log2.first
      BY <3>3 DEF Replayed
    <3> QED
      BY <3>2, <3>4
  <2>2. CASE log1 # Nothing /\ now = log1.last
    BY <1>2, <1>4, <2>2
  <2>3. CASE log1 # Nothing /\ now # log1.last
    <3>1. log2 = [log1 EXCEPT !.last = now, !.lines = Append(@, Line(log1.last, now))]
      BY <1>2, <2>3
    <3>2. log1 \in [first : SUBSET Nat, last : SUBSET Nat, lines : Seq(LineRecords)]
      BY <1>4, <2>3
    <3>3. Line(log1.last, now) \in LineRecords
      BY <1>3, <3>2 DEF Line, LineRecords
    <3>4. /\ log2 \in [first : SUBSET Nat, last : SUBSET Nat, lines : Seq(LineRecords)]
          /\ log2.first = log1.first /\ log2.last = now
          /\ log2.lines = Append(log1.lines, Line(log1.last, now))
      <4>1. Append(log1.lines, Line(log1.last, now)) \in Seq(LineRecords)
        BY <3>2, <3>3
      <4> HIDE DEF LineRecords, Line
      <4> DEFINE lines == Append(log1.lines, Line(log1.last, now))
      <4> HIDE DEF lines
      <4>2. log2 = [log1 EXCEPT !.last = now, !.lines = lines] /\ lines \in Seq(LineRecords)
        BY <3>1, <4>1 DEF lines
      <4>3. log2 = [first |-> log1.first, last |-> now, lines |-> lines] /\ log1.first \in SUBSET Nat
        BY <3>2, <4>2
      <4> QED
        BY <1>3, <4>2, <4>3 DEF lines
    <3>5. Replayed(log2) = log2.last
      BY <1>4, <2>3, <3>2, <3>4, OneLineMore
    <3> QED
      BY <3>4, <3>5
  <2> QED
    BY <2>1, <2>2, <2>3
<1>6. LinesAddUp'
  BY <1>5 DEF LinesAddUp, log2
<1>7. EventsAddUp'
  <2>1. files'.heard = files.heard
    BY <1>1 DEF FilesBut, MemoryTypes
  <2> QED
    BY <2>1 DEF EventsAddUp
<1>8. Watching'
  <2>1. prog'.kind = "monitor" /\ prog'.todo = GarageSlots /\ prog'.got = <<>>
    BY <1>1 DEF PassEnded, ProgBut, ProgramTypes
  <2>2. GarageSlots \in Seq(Words)
    BY MemoryAssumption
  <2>3. Following(GarageSlots)'
    BY <2>1, <2>2, PassStarts
  <2> QED
    BY <2>1, <2>3 DEF Watching
<1> QED
  BY <1>5, <1>6, <1>7, <1>8 DEF now, log2

\* The terms of the property, in those of the lemmas.
LEMMA TotalIsSum == ASSUME NEW log1 PROVE Total(log1) = Sum(log1.first, log1.events)
BY DEF Total, Sum
LEMMA ToldIsNamed == ASSUME NEW log1, NEW name PROVE Told(log1, name) = Named(log1.events, name)
BY DEF Told, Named

\* A poll: likewise, and what it tells of a race.
LEMMA EndPollStep ==
    ASSUME MemoryTypes, ProgramTypes, Watching, LinesAddUp, EventsAddUp, EndPoll
    PROVE  /\ Watching' /\ LinesAddUp' /\ EventsAddUp'
           /\ Len(prog.got) = 4 /\ Total(files'.heard) = prog.got[1]
           /\ files.heard # Nothing =>
                 (Told(files'.heard, "race_start") # Told(files.heard, "race_start"))
                    <=> (prog.got[2] < FreeRoam /\ ~files.heard.racing)
<1> DEFINE now == prog.got
           log1 == files.heard
           log2 == files'.heard
<1>1. /\ prog.kind = "listener" /\ prog.todo = <<>> /\ PassEnded(Heard)
      /\ FilesBut({"heard"})
  BY WatchersDo
<1>2. log2 = IF log1 = Nothing THEN Baseline(now) ELSE Polled(log1, now)
  BY DEF EndPoll, MemoryTypes
<1>3. now \in Seq(Nat) /\ Len(now) = 4
  <2>1. Following(Heard) /\ Heard \in Seq(Words) /\ Len(Heard) = 4
    BY <1>1, MemoryAssumption DEF Watching
  <2>2. Len(prog.got) = Len(Heard)
    BY <1>1, <2>1, PassEnds
  <2> QED
    BY <2>1, <2>2 DEF Following
<1>4. log1 # Nothing =>
         /\ log1 \in EventLogs /\ Len(log1.last) = 4 /\ Sum(log1.first, log1.events) = log1.last[1]
  BY TotalIsSum DEF EventsAddUp
<1> HIDE DEF now, log1, log2
<1>5. /\ log2 \in EventLogs /\ log2.last = now /\ Sum(log2.first, log2.events) = now[1]
      /\ RacingRight(log2)
      /\ log1 # Nothing =>
            (Named(log2.events, "race_start") # Named(log1.events, "race_start"))
               <=> (now[2] < FreeRoam /\ ~log1.racing)
  <2>1. CASE log1 = Nothing
    <3>1. log2 = [first |-> now[1], last |-> now, racing |-> now[2] <= FreeRoam, events |-> <<>>,
                  polls |-> 0]
      BY <1>2, <2>1 DEF Baseline
    <3>2. now[1] \in Nat /\ now[2] \in Nat
      <4>1. 1 \in 1..Len(now) /\ 2 \in 1..Len(now)
        BY <1>3
      <4> QED
        BY <1>3, <4>1, ElementOfSeq
    <3>3. /\ log2 \in EventLogs /\ log2.first = now[1] /\ log2.last = now /\ log2.events = <<>>
      BY <1>3, <3>1, <3>2 DEF EventLogs
    <3>5. RacingRight(log2)
      <4>1. FreeRoam \in Nat
        BY MemoryAssumption
      <4>2. now[2] <= FreeRoam <=> now[2] < FreeRoam \/ now[2] = FreeRoam
        BY <3>2, <4>1
      <4> QED
        BY <3>1, <4>2 DEF RacingRight
    <3>4. Sum(now[1], <<>>) = now[1]
      BY <3>2, SumOfNothing
    <3> QED
      BY <2>1, <3>3, <3>4, <3>5
  <2>2. CASE log1 # Nothing
    <3>1. log2 = Polled(log1, now)
      BY <1>2, <2>2
    <3> DEFINE p == Polled(log1, now)
    <3>2. /\ p \in EventLogs /\ p.polls = 1 /\ p.last = now /\ p.racing = (now[2] < FreeRoam)
          /\ Sum(p.first, p.events) = now[1]
          /\ IF p.racing /\ ~log1.racing
             THEN Named(p.events, "race_start") # Named(log1.events, "race_start")
             ELSE Named(p.events, "race_start") = Named(log1.events, "race_start")
      BY <1>3, <1>4, <2>2, PollFacts
    <3> HIDE DEF p
    <3>3. log2 = p
      BY <3>1 DEF p
    <3>4. RacingRight(log2)
      <4>1. log2.polls # 0
        BY <3>2, <3>3
      <4>2. log2.racing <=> log2.last[2] < FreeRoam
        BY <3>2, <3>3
      <4> QED
        BY ONLY <4>1, <4>2, Zenon DEF RacingRight
    <3> QED
      BY <3>2, <3>3, <3>4
  <2> QED
    BY <2>1, <2>2
<1>6. EventsAddUp'
  <2>1. Len(log2.last) = 4 /\ Total(log2) = log2.last[1]
    BY <1>3, <1>5, TotalIsSum
  <2> QED
    BY <1>5, <2>1 DEF EventsAddUp, log2
<1>7. LinesAddUp'
  <2>1. files'.garage = files.garage
    BY <1>1 DEF FilesBut, MemoryTypes
  <2> QED
    BY <2>1 DEF LinesAddUp
<1>8. Watching'
  <2>1. prog'.kind = "listener" /\ prog'.todo = Heard /\ prog'.got = <<>>
    BY <1>1 DEF PassEnded, ProgBut, ProgramTypes
  <2>2. Heard \in Seq(Words)
    BY MemoryAssumption
  <2>3. Following(Heard)'
    BY <2>1, <2>2, PassStarts
  <2> QED
    BY <2>1, <2>3 DEF Watching
<1> QED
  BY <1>3, <1>5, <1>6, <1>7, <1>8, TotalIsSum, ToldIsNamed DEF now, log1, log2

\* The game writes in between.
LEMMA WatchersPlayed ==
    ASSUME MemoryTypes, ProgramTypes, Watching, LinesAddUp, EventsAddUp,
           NEW w \in Words, NEW v \in Nat, Played(w, v)
    PROVE  Watching' /\ LinesAddUp' /\ EventsAddUp'
<1>1. files'.garage = files.garage /\ files'.heard = files.heard
  BY DEF Played, FilesBut, MemoryTypes
<1>2. CASE prog.kind \notin {"monitor", "listener"}
  <2>1. prog'.kind \notin {"monitor", "listener"}
    BY <1>2 DEF Played, ProgBut, ProgramTypes, Idle
  <2> QED
    BY <1>1, <2>1, WatchersElsewhere
<1>3. CASE prog.kind \in {"monitor", "listener"}
  <2>1. prog.kind # "none" /\ ProgBut({"steady"}) /\ game' = [game EXCEPT ![w] = v]
    BY <1>3 DEF Played
  <2>2. /\ prog'.kind = prog.kind /\ prog'.todo = prog.todo /\ prog'.got = prog.got
        /\ prog'.steady = prog.steady \ {w} /\ prog.steady \subseteq Words
    BY <1>3, <2>1 DEF Played, ProgBut, ProgramTypes
  <2>3. prog.kind = "monitor" => Following(GarageSlots)'
    BY <2>1, <2>2, PassPlayed DEF Watching
  <2>4. prog.kind = "listener" => Following(Heard)'
    BY <2>1, <2>2, PassPlayed DEF Watching
  <2> QED
    BY <1>1, <2>2, <2>3, <2>4 DEF Watching, LinesAddUp, EventsAddUp
<1> QED
  BY <1>2, <1>3
-----------------------------------------------------------------------------
(* The invariant holds, whoever takes the step.                            *)
LEMMA Elsewhere ==
    ASSUME CaptureInv, NEW changed, NEW kinds, NEW known, Leaves(changed, kinds, known),
           bounds'.runs \in {bounds.runs, bounds.runs + 1}
    PROVE  /\ "captures" \notin changed /\ "capture" \notin kinds /\ Names \subseteq known =>
                 ChunkFiles' /\ Capturing' /\ CapturesTrue'
           /\ "snapshots" \notin changed /\ "snapshot" \notin kinds /\ Labels \subseteq known =>
                 Snapshotting' /\ SnapshotsTrue'
           /\ {"dumps", "diffs"} \cap changed = {} /\ "dump" \notin kinds =>
                 DumpInv'
           /\ {"garage", "heard"} \cap changed = {} /\ {"monitor", "listener"} \cap kinds = {} =>
                 Watching' /\ LinesAddUp' /\ EventsAddUp'
<1>1. /\ DOMAIN files = {"captures", "snapshots", "dumps", "diffs", "garage", "heard"}
      /\ \A x \in DOMAIN files : x \notin changed => files'[x] = files[x]
      /\ prog'.kind \in kinds /\ \A n \in known : truth'[n] = truth[n]
  BY DEF CaptureInv, MemoryTypes, Leaves, FilesBut
<1>2. ASSUME "captures" \notin changed, "capture" \notin kinds, Names \subseteq known
      PROVE  ChunkFiles' /\ Capturing' /\ CapturesTrue'
  <2>1. /\ files'.captures = files.captures /\ prog'.kind # "capture"
        /\ \A n \in Names : truth'[n] = truth[n]
    BY <1>1, <1>2
  <2> QED
    BY <2>1, CapturesElsewhere DEF CaptureInv
<1>3. ASSUME "snapshots" \notin changed, "snapshot" \notin kinds, Labels \subseteq known
      PROVE  Snapshotting' /\ SnapshotsTrue'
  <2>1. /\ files'.snapshots = files.snapshots /\ prog'.kind # "snapshot"
        /\ \A l \in Labels : truth'[l] = truth[l]
    BY <1>1, <1>3
  <2> QED
    BY <2>1, SnapshotsElsewhere DEF CaptureInv
<1>4. ASSUME {"dumps", "diffs"} \cap changed = {}, "dump" \notin kinds
      PROVE  DumpInv'
  <2>1. files'.dumps = files.dumps /\ files'.diffs = files.diffs /\ prog'.kind # "dump"
    BY <1>1, <1>4
  <2> QED
    BY <2>1, DumpsElsewhere DEF CaptureInv, DumpInv
<1>5. ASSUME {"garage", "heard"} \cap changed = {}, {"monitor", "listener"} \cap kinds = {}
      PROVE  Watching' /\ LinesAddUp' /\ EventsAddUp'
  <2>1. /\ files'.garage = files.garage /\ files'.heard = files.heard
        /\ prog'.kind \notin {"monitor", "listener"}
    BY <1>1, <1>5
  <2> QED
    BY <2>1, WatchersElsewhere DEF CaptureInv
<1> QED
  BY <1>2, <1>3, <1>4, <1>5

\* Every step keeps the invariant.
LEMMA CaptureInvStep ==
    ASSUME CaptureInv, CaptureNext
    PROVE  CaptureInv'
<1>0. /\ MemoryTypes /\ ProgramTypes
      /\ ChunkFiles /\ Capturing /\ CapturesTrue
      /\ Snapshotting /\ SnapshotsTrue
      /\ DumpInv
      /\ Watching /\ LinesAddUp /\ EventsAddUp
      /\ bounds'.runs \in {bounds.runs, bounds.runs + 1}
  BY RunsGrow DEF CaptureInv, DumpInv
<1>1. MemoryTypes' /\ ProgramTypes'
  BY <1>0, TypesStep
<1> DEFINE A == ChunkFiles' /\ Capturing' /\ CapturesTrue'
           B == Snapshotting' /\ SnapshotsTrue'
           C == DumpInv'
           D == Watching' /\ LinesAddUp' /\ EventsAddUp'
<1> SUFFICES A /\ B /\ C /\ D
  BY <1>1 DEF CaptureInv, DumpInv
<1>2. CASE CaptureStep
  <2>1. Leaves({"captures"}, {"none", "capture"}, Labels)
    BY <1>0, <1>2, CaptureLeaves
  <2>2. B /\ C /\ D
    BY <1>0, <2>1, Elsewhere
  <2>3. A
    BY <1>0, <1>2, StartCaptureStep, WriteChunkStep, EndCaptureStep DEF CaptureStep
  <2> QED
    BY <2>2, <2>3
<1>3. CASE SnapshotStep
  <2>1. Leaves({"snapshots"}, {"none", "snapshot"}, Names)
    BY <1>0, <1>3, SnapshotLeaves
  <2>2. A /\ C /\ D
    BY <1>0, <2>1, Elsewhere
  <2>3. B
    BY <1>0, <1>3, StartSnapshotStep, FollowPointerStep, ReadRegionStep, SaveSnapshotStep
       DEF SnapshotStep
  <2> QED
    BY <2>2, <2>3
<1>4. CASE DumpStep
  <2>1. Leaves({"dumps", "diffs"}, {"none", "dump"}, Names \cup Labels)
    BY <1>0, <1>4, DumpLeaves
  <2>2. A /\ B /\ D
    BY <1>0, <2>1, Elsewhere
  <2>3. C
    BY <1>0, <1>4, StartSeriesStep, DumpChunkStep, SaveDumpStep, SaveChangesStep DEF DumpStep
  <2> QED
    BY <2>2, <2>3
<1>5. CASE WatcherStep
  <2>1. Leaves({"garage", "heard"}, {"monitor", "listener"}, Names \cup Labels)
    BY <1>0, <1>5, WatcherLeaves
  <2>2. A /\ B /\ C
    BY <1>0, <2>1, Elsewhere
  <2>3. D
    BY <1>0, <1>5, StartWatchingStep, WatcherGoesOn, EndPassStep, EndPollStep DEF WatcherStep
  <2> QED
    BY <2>2, <2>3
<1>6. CASE Abort
  <2>1. Leaves({}, {"none"}, Names \cup Labels)
    BY <1>6, AbortLeaves
  <2> QED
    BY <1>0, <2>1, Elsewhere
<1>7. CASE \E w \in Words, v \in Nat : Played(w, v)
  BY <1>0, <1>7, CapturesPlayed, SnapshotsPlayed, DumpsPlayed, WatchersPlayed
<1> QED
  BY <1>0, <1>2, <1>3, <1>4, <1>5, <1>6, <1>7, BlocksOfSteps

\* So does a step that changes nothing.
LEMMA CaptureInvStutters ==
    ASSUME CaptureInv, UNCHANGED captureVars
    PROVE  CaptureInv'
<1> USE DEF captureVars
<1>1. MemoryTypes' /\ ProgramTypes'
  BY DEF CaptureInv, MemoryTypes, ProgramTypes
<1>2. ChunkFiles' /\ CapturesTrue'
  BY DEF CaptureInv, ChunkFiles, CapturesTrue
<1>3. Capturing'
  BY DEF CaptureInv, Capturing, Known
<1>4. SnapshotsTrue' /\ Snapshotting'
  BY DEF CaptureInv, SnapshotsTrue, Snapshotting, Known
<1>5. Dumping' /\ SeriesGoesOn' /\ SeriesRight'
  BY DEF CaptureInv, Dumping, SeriesGoesOn, SeriesRight
<1>6. Watching' /\ LinesAddUp' /\ EventsAddUp'
  BY DEF CaptureInv, Watching, Following, LinesAddUp, EventsAddUp
<1> QED
  BY <1>1, <1>2, <1>3, <1>4, <1>5, <1>6 DEF CaptureInv

\* CaptureInv is an invariant of the exploration tools.
THEOREM CaptureInvTheorem == CaptureSpec => []CaptureInv
<1>1. CaptureInv /\ [CaptureNext]_captureVars => CaptureInv'
  BY CaptureInvStep, CaptureInvStutters
<1> QED
  BY <1>1, CaptureInitInv, PTL DEF CaptureSpec

(* The two watchers add up, at every pass and poll.                        *)
LEMMA Undisturbed ==
    ASSUME NEW slots \in Seq(Words), Following(slots), prog.todo = <<>>,
           Range(slots) \subseteq prog.steady
    PROVE  /\ prog.got = [i \in DOMAIN slots |-> game[slots[i]]]
           /\ DOMAIN slots = 1..Len(slots)
<1>1. Len(prog.got) = Len(slots)
  BY PassEnds
<1>2. /\ prog.got \in Seq(Nat) /\ DOMAIN slots = 1..Len(slots)
      /\ \A j \in 1..Len(slots) : slots[j] \in prog.steady => prog.got[j] = game[slots[j]]
  BY <1>1 DEF Following
<1>3. \A j \in 1..Len(slots) : prog.got[j] = game[slots[j]]
  BY <1>2 DEF Range
<1>4. prog.got = [i \in 1..Len(slots) |-> prog.got[i]]
  BY <1>1, <1>2
<1> QED
  BY <1>2, <1>3, <1>4

(* Each pass that the game did not disturb leaves lines that add up to the  *)
(* garage, and each such poll events that add up to the money and tell of   *)
(* the races (monitor.py, listen.py).                                       *)
THEOREM LogsCatchUpTheorem == CaptureSpec => LogsCatchUp
<1> DEFINE A ==
       /\ (EndPass /\ Range(GarageSlots) \subseteq prog.steady) =>
             Replayed(files'.garage) =
                Owned([i \in DOMAIN GarageSlots |-> game[GarageSlots[i]]])
       /\ (EndPoll /\ Range(Heard) \subseteq prog.steady) =>
             LET log1 == files.heard log2 == files'.heard IN
             /\ Total(log2) = game[Heard[1]]
             /\ log1 # Nothing =>
                   (Told(log2, "race_start") # Told(log1, "race_start")
                      <=> /\ game[Heard[2]] < FreeRoam
                          /\ log1.last[2] >= FreeRoam
                          /\ log1.polls = 0 => log1.last[2] > FreeRoam)
<1>0. GarageSlots \in Seq(Words) /\ Heard \in Seq(Words) /\ Len(Heard) = 4
  BY MemoryAssumption
<1>1. ASSUME CaptureInv, EndPass, Range(GarageSlots) \subseteq prog.steady
      PROVE  Replayed(files'.garage) =
                Owned([i \in DOMAIN GarageSlots |-> game[GarageSlots[i]]])
  <2>1. Replayed(files'.garage) = Owned(prog.got)
    BY <1>1, EndPassStep DEF CaptureInv
  <2>2. Following(GarageSlots) /\ prog.todo = <<>>
    BY <1>1 DEF EndPass, CaptureInv, Watching
  <2>3. prog.got = [i \in DOMAIN GarageSlots |-> game[GarageSlots[i]]]
    BY <1>0, <1>1, <2>2, Undisturbed
  <2> QED
    BY <2>1, <2>3
<1>2. ASSUME CaptureInv, EndPoll, Range(Heard) \subseteq prog.steady
      PROVE  LET log1 == files.heard log2 == files'.heard IN
             /\ Total(log2) = game[Heard[1]]
             /\ log1 # Nothing =>
                   (Told(log2, "race_start") # Told(log1, "race_start")
                      <=> /\ game[Heard[2]] < FreeRoam
                          /\ log1.last[2] >= FreeRoam
                          /\ log1.polls = 0 => log1.last[2] > FreeRoam)
  <2>1. /\ Total(files'.heard) = prog.got[1]
        /\ files.heard # Nothing =>
              (Told(files'.heard, "race_start") # Told(files.heard, "race_start"))
                 <=> (prog.got[2] < FreeRoam /\ ~files.heard.racing)
    BY <1>2, EndPollStep DEF CaptureInv
  <2>2. Following(Heard) /\ prog.todo = <<>>
    BY <1>2 DEF EndPoll, CaptureInv, Watching
  <2>3. prog.got = [i \in 1..4 |-> game[Heard[i]]]
    BY <1>0, <1>2, <2>2, Undisturbed
  <2>4. prog.got[1] = game[Heard[1]] /\ prog.got[2] = game[Heard[2]]
    BY <2>3
  <2>5. ASSUME files.heard # Nothing
        PROVE  ~files.heard.racing
                  <=> /\ files.heard.last[2] >= FreeRoam
                      /\ files.heard.polls = 0 => files.heard.last[2] > FreeRoam
    <3>1. files.heard \in EventLogs /\ RacingRight(files.heard) /\ Len(files.heard.last) = 4
      BY <1>2, <2>5 DEF CaptureInv, EventsAddUp
    <3>2. files.heard.last \in Seq(Nat) /\ 2 \in 1..4
      BY <3>1 DEF EventLogs
    <3>3. files.heard.last[2] \in Nat /\ FreeRoam \in Nat
      BY <3>1, <3>2, ElementOfSeq, MemoryAssumption
    <3> QED
      BY <3>1, <3>3 DEF RacingRight
  <2> QED
    BY <2>1, <2>4, <2>5
<1>3. CaptureInv /\ [CaptureNext]_captureVars => [A]_captureVars
  BY <1>1, <1>2
<1> QED
  BY <1>3, CaptureInvTheorem, PTL DEF CaptureSpec, LogsCatchUp
-----------------------------------------------------------------------------
(* A series is complete: what no difference names has not changed.         *)
LEMMA StandsStill ==
    ASSUME NEW j \in Nat, NEW m \in Nat, j <= m, NEW v,
           \A k \in Nat : j <= k /\ k < m => v[k + 1] = v[k]
    PROVE  v[m] = v[j]
<1> DEFINE T == {d \in Nat : j + d <= m => v[j + d] = v[j]}
<1>1. 0 \in T
  OBVIOUS
<1>2. ASSUME NEW d \in T PROVE d + 1 \in T
  <2> SUFFICES ASSUME j + (d + 1) <= m PROVE v[j + (d + 1)] = v[j]
    OBVIOUS
  <2>1. j + d \in Nat /\ j <= j + d /\ j + d < m /\ (j + d) + 1 = j + (d + 1)
    OBVIOUS
  <2>2. v[(j + d) + 1] = v[j + d]
    BY <2>1
  <2>3. v[j + d] = v[j]
    BY <2>1
  <2> QED
    BY <2>1, <2>2, <2>3
<1>3. T = Nat
  <2> HIDE DEF T
  <2>1. T \in SUBSET Nat
    BY DEF T
  <2> QED BY <1>1, <1>2, <2>1, Induction
<1>4. \A d \in Nat : j + d <= m => v[j + d] = v[j]
  BY <1>3
<1>5. m - j \in Nat /\ j + (m - j) = m /\ j + (m - j) <= m
  OBVIOUS
<1>6. v[j + (m - j)] = v[j]
  BY <1>4, <1>5
<1> QED
  BY <1>5, <1>6

\* What a difference has of a word, if it has any.
LEMMA ChangesOfWord ==
    ASSUME NEW prev \in WholeDumps, NEW curr \in WholeDumps,
           NEW b \in Bases, NEW i, NEW c,
           DOMAIN prev[b] = DOMAIN curr[b], i \in DOMAIN prev[b]
    PROVE  (c \in Changes(prev, curr) /\ c[1] = b /\ c[2] = i) <=>
              (c = <<b, i, curr[b][i]>> /\ prev[b][i] # curr[b][i])
<1>1. ASSUME c \in Changes(prev, curr), c[1] = b, c[2] = i
      PROVE  c = <<b, i, curr[b][i]>> /\ prev[b][i] # curr[b][i]
  <2>1. PICK bb \in Bases : \E ii \in DOMAIN prev[bb] \cap DOMAIN curr[bb] :
           prev[bb][ii] # curr[bb][ii] /\ c = <<bb, ii, curr[bb][ii]>>
    BY <1>1 DEF Changes, WholeDumps
  <2>2. PICK ii \in DOMAIN prev[bb] \cap DOMAIN curr[bb] :
           prev[bb][ii] # curr[bb][ii] /\ c = <<bb, ii, curr[bb][ii]>>
    BY <2>1
  <2>3. bb = b /\ ii = i
    BY <1>1, <2>2
  <2> QED
    BY <2>2, <2>3
<1>2. ASSUME prev[b][i] # curr[b][i]
      PROVE  <<b, i, curr[b][i]>> \in Changes(prev, curr)
  BY <1>2 DEF Changes, WholeDumps
<1>3. ASSUME c = <<b, i, curr[b][i]>>, prev[b][i] # curr[b][i]
      PROVE  c \in Changes(prev, curr) /\ c[1] = b /\ c[2] = i
  BY <1>2, <1>3
<1> QED
  BY <1>1, <1>3

\* The last difference that names a word is the one that counts.
LEMMA SeriesFacts ==
    ASSUME CaptureInv, NEW last \in DOMAIN files.dumps, InSeries(last), last = 0 \/ HasChanges(last),
           NEW b \in Words,
           \A i \in 0..last : /\ b \in DOMAIN files.dumps[i].chunks
                             /\ files.dumps[i].chunks[b] # Nothing
    PROVE  [i \in DOMAIN files.dumps[0].chunks[b] |-> Applied(b, i, last)]
              = files.dumps[last].chunks[b]
<1> DEFINE all == [k \in 0..last |-> files.dumps[k].chunks]
           changes == [k \in 1..last |-> files.diffs[k].rows]
           n == Least(Chunk, Size - b)
<1>0. SeriesRight
  BY DEF CaptureInv
<1>1. /\ last \in Nat
      /\ \A k \in 0..last : k \in DOMAIN files.dumps /\ Whole(files.dumps[k].chunks)
  BY <1>0 DEF SeriesRight, Marked, InSeries
<1>2. \A k \in 1..last : HasChanges(k)
  <2>1. \A k \in 1..(last - 1) : HasChanges(k)
    BY <1>0 DEF SeriesRight, Complete, InSeries, HasChanges
  <2>2. \A k \in 1..last : k \in 1..(last - 1) \/ k = last
    BY <1>1
  <2>3. \A k \in 1..last : last # 0
    BY <1>1
  <2> QED
    BY <2>1, <2>2, <2>3
<1>3. /\ \A k \in 0..last : all[k] \in WholeDumps /\ \A c \in Bases : Piece(all[k][c], c)
      /\ \A k \in 0..last : b \in DOMAIN all[k] /\ all[k][b] # Nothing
      /\ all[0] = files.dumps[0].chunks /\ all[last] = files.dumps[last].chunks
      /\ 0 \in 0..last /\ last \in 0..last
  <2>1. 0 \in 0..last /\ last \in 0..last
    BY <1>1
  <2> QED
    BY <1>1, <2>1 DEF Whole
<1>4. \A k \in 1..last : changes[k] = Changes(all[k - 1], all[k])
  <2> SUFFICES ASSUME NEW k \in 1..last PROVE changes[k] = Changes(all[k - 1], all[k])
    OBVIOUS
  <2>1. k - 1 \in 0..last /\ k \in 0..last
    BY <1>1
  <2>2. files.diffs[k].rows = Changes(files.dumps[k - 1].chunks, files.dumps[k].chunks)
    BY <1>0, <1>2 DEF SeriesRight, Neighbours, HasChanges
  <2> QED
    BY <2>1, <2>2
<1>5. \A i : Naming(b, i, last) = {k \in 1..last : \E c \in changes[k] : c[1] = b /\ c[2] = i}
  BY DEF Naming
<1>6. \A i : Applied(b, i, last) =
         IF Naming(b, i, last) = {} THEN all[0][b][i]
         ELSE (CHOOSE c \in files.diffs[Max(Naming(b, i, last))].rows : c[1] = b /\ c[2] = i)[3]
  BY <1>3 DEF Applied
<1>7. \A k \in 1..last : files.diffs[k].rows = changes[k]
  OBVIOUS
<1> HIDE DEF all, changes
<1>8. b \in Bases
  BY <1>3 DEF WholeDumps
<1>9. \A k \in 0..last : all[k][b] \in Seq(Nat) /\ DOMAIN all[k][b] = 1..n
  BY <1>3, <1>8 DEF Piece, WholeDumps
<1> HIDE DEF n
<1>10. ASSUME NEW i \in 1..n PROVE Applied(b, i, last) = all[last][b][i]
  <2> DEFINE v == [k \in 0..last |-> all[k][b][i]]
             named == Naming(b, i, last)
  <2>1. \A k \in 1..last : k \in 0..last /\ k - 1 \in 0..last
    BY <1>1
  <2>2. ASSUME NEW k \in 1..last
        PROVE  \A c : (c \in changes[k] /\ c[1] = b /\ c[2] = i) <=>
                         (c = <<b, i, v[k]>> /\ v[k - 1] # v[k])
    <3> DEFINE p == all[k - 1]
               q == all[k]
    <3>1. v[k - 1] = p[b][i] /\ v[k] = q[b][i] /\ changes[k] = Changes(p, q)
      BY <1>4, <2>1
    <3>2. /\ p \in WholeDumps /\ q \in WholeDumps
          /\ DOMAIN p[b] = DOMAIN q[b] /\ i \in DOMAIN p[b]
      BY <1>3, <1>9, <2>1
    <3> HIDE DEF p, q, v
    <3>3. \A c : (c \in Changes(p, q) /\ c[1] = b /\ c[2] = i) <=>
                    (c = <<b, i, q[b][i]>> /\ p[b][i] # q[b][i])
      <4> TAKE c
      <4> QED
        BY ONLY <1>8, <3>2, ChangesOfWord
    <3> QED
      BY <3>1, <3>3
  <2>3. v[last] = all[last][b][i] /\ v[0] = all[0][b][i]
    BY <1>3
  <2> HIDE DEF v
  <2>4. named = {k \in 1..last : v[k - 1] # v[k]}
    <3>1. named = {k \in 1..last : \E c \in changes[k] : c[1] = b /\ c[2] = i}
      BY <1>5
    <3>2. ASSUME NEW k \in 1..last
          PROVE  (\E c \in changes[k] : c[1] = b /\ c[2] = i) <=> v[k - 1] # v[k]
      BY <2>2
    <3> QED
      BY <3>1, <3>2
  <2>5. Applied(b, i, last) =
           IF named = {} THEN all[0][b][i]
           ELSE (CHOOSE c \in files.diffs[Max(named)].rows : c[1] = b /\ c[2] = i)[3]
    BY <1>6
  <2> HIDE DEF named
  <2>6. CASE named = {}
    <3>1. \A k \in Nat : 0 <= k /\ k < last => v[k + 1] = v[k]
      <4> SUFFICES ASSUME NEW k \in Nat, 0 <= k, k < last PROVE v[k + 1] = v[k]
        OBVIOUS
      <4>1. k + 1 \in 1..last /\ (k + 1) - 1 = k
        BY <1>1
      <4> QED
        BY <2>4, <2>6, <4>1
    <3>2. v[last] = v[0]
      <4>1. 0 \in Nat /\ last \in Nat /\ 0 <= last
        BY <1>1
      <4> QED
        BY ONLY <3>1, <4>1, StandsStill
    <3> QED
      BY <2>3, <2>5, <2>6, <3>2
  <2>7. CASE named # {}
    <3> DEFINE newest == Max(named)
    <3>1. named \in SUBSET (1..last)
      BY <2>4
    <3>2. IsFiniteSet(1..last)
      <4>1. 1 \in Int /\ last \in Int
        BY <1>1
      <4> QED
        BY ONLY <4>1, FS_Interval
    <3>3. IsFiniteSet(named)
      BY ONLY <3>1, <3>2, FS_Subset
    <3>4. named \in SUBSET Nat
      BY <3>1
    <3>5. newest \in named /\ \A k \in named : k <= newest
      BY <2>7, <3>3, <3>4, LeastAndGreatest
    <3> HIDE DEF newest
    <3>6. newest \in 1..last /\ v[newest - 1] # v[newest]
      BY <2>4, <3>5
    <3>7. v[last] = v[newest]
      <4>1. newest \in Nat /\ newest <= last /\ last \in Nat
        BY <1>1, <3>6
      <4>2. ASSUME NEW k \in Nat, newest <= k, k < last PROVE v[k + 1] = v[k]
        <5>1. k + 1 \in 1..last /\ ~(k + 1 <= newest) /\ (k + 1) - 1 = k
          BY <1>1, <3>6, <4>2
        <5> QED
          BY <2>4, <3>5, <5>1
      <4> QED
        BY <4>1, <4>2, StandsStill
    <3> DEFINE c == CHOOSE c \in changes[newest] : c[1] = b /\ c[2] = i
    <3>8. c = <<b, i, v[newest]>>
      <4>1. <<b, i, v[newest]>> \in changes[newest]
        BY <2>2, <3>6
      <4>2. c \in changes[newest] /\ c[1] = b /\ c[2] = i
        BY <4>1
      <4> HIDE DEF c
      <4> QED
        BY <2>2, <3>6, <4>2
    <3>9. Applied(b, i, last) = c[3]
      <4>1. files.diffs[newest].rows = changes[newest]
        BY <1>7, <3>6
      <4> QED
        BY <2>5, <2>7, <4>1 DEF newest
    <3> HIDE DEF c
    <3>10. Applied(b, i, last) = v[newest]
      BY <3>8, <3>9
    <3> QED
      BY <2>3, <3>7, <3>10
  <2> QED
    BY <2>6, <2>7
<1>11. all[last][b] = [i \in 1..n |-> all[last][b][i]]
  <2>1. all[last][b] \in Seq(Nat) /\ DOMAIN all[last][b] = 1..n
    BY <1>3, <1>9
  <2>2. \A q \in Seq(Nat) : q = [i \in DOMAIN q |-> q[i]]
    OBVIOUS
  <2> QED
    BY <2>1, <2>2
<1>12. [i \in 1..n |-> Applied(b, i, last)] = all[last][b]
  BY <1>10, <1>11
<1> QED
  BY <1>3, <1>9, <1>12

\* So the series is as complete as it says, whoever broke it off.
LEMMA SeriesComplete == CaptureInv => SeriesIsComplete
<1> SUFFICES ASSUME CaptureInv, NEW last \in DOMAIN files.dumps, InSeries(last)
             PROVE  /\ \A k \in 1..(last - 1) : HasChanges(k)
                    /\ last = 0 \/ HasChanges(last) =>
                          \A b \in {b \in Words : \A i \in 0..last :
                                        /\ b \in DOMAIN files.dumps[i].chunks
                                        /\ files.dumps[i].chunks[b] # Nothing} :
                             [i \in DOMAIN files.dumps[0].chunks[b] |-> Applied(b, i, last)]
                                = files.dumps[last].chunks[b]
  BY DEF SeriesIsComplete
<1>1. \A k \in 1..(last - 1) : HasChanges(k)
  BY DEF CaptureInv, SeriesRight, Complete, InSeries, HasChanges
<1> QED
  BY <1>1, SeriesFacts

(* In a series of full_diff.py, broken off or not, only the newest dump can *)
(* lack its difference, and the differences, applied in their order to the  *)
(* first dump, give each later one, for every chunk that could be read.     *)
THEOREM SeriesIsCompleteTheorem == CaptureSpec => []SeriesIsComplete
BY CaptureInvTheorem, SeriesComplete, PTL
-----------------------------------------------------------------------------
(* A row of a snapshot's comparison is where its bytes were read.          *)
LEMMA RowIsReal ==
    ASSUME NEW r \in Range(Regions), NEW old, NEW new, NEW was, NEW is,
           RegionRight(old, r, was), RegionRight(new, r, is),
           0 \in DOMAIN was, 0 \in DOMAIN is, was[0] = is[0], Plausible(was[0]),
           NEW i \in DOMAIN old, Len(old) = Len(new), old[i] # new[i],
           NEW w, w = (RegionAt(r, was[0]) - 1) + i
    PROVE  w \in DOMAIN was /\ w \in DOMAIN is => was[w] # is[w]
<1> DEFINE at == RegionAt(r, was[0])
<1>1. at \in Nat
  <2>1. r[2] \in Nat
    BY RegionFacts
  <2>2. was[0] \in Nat
    BY MemoryAssumption DEF Plausible, Words
  <2> QED
    BY <2>1, <2>2 DEF RegionAt
<1> HIDE DEF at
<1>2. /\ Len(old) \in Nat /\ DOMAIN old = 1..Len(old)
      /\ Agrees(old, at, was) /\ Agrees(new, at, is)
  BY DEF RegionRight, IsBytes, at
<1>3. i \in 1..Len(old) /\ i \in Nat /\ w = at + i - 1
  BY <1>1, <1>2 DEF at
<1>4. w \in DOMAIN was => old[i] = was[w]
  BY <1>2, <1>3 DEF Agrees
<1>5. w \in DOMAIN is => new[i] = is[w]
  BY <1>2, <1>3 DEF Agrees
<1> QED
  BY <1>4, <1>5

\* Every row is one of them.
LEMMA SnapshotFacts == CaptureInv => SnapshotRowsAreReal
<1> SUFFICES ASSUME CaptureInv, NEW a \in Labels, NEW b \in Labels,
                    truth[a] # Nothing, truth[b] # Nothing,
                    0 \in Steady({a, b}), truth[a][0] = truth[b][0], Plausible(truth[a][0])
             PROVE  \A i \in DOMAIN SnapshotDiff(a, b) :
                       LET w == SnapshotDiff(a, b)[i] IN
                       w \in Steady({a, b}) => truth[a][w] # truth[b][w]
  BY DEF SnapshotRowsAreReal
<1> DEFINE before == files.snapshots[a]
           after == files.snapshots[b]
           was == truth[a]
           is == truth[b]
           S == {w \in Int : w \in DOMAIN was /\ w \in DOMAIN is => was[w] # is[w]}
           changed(r) == {i \in DOMAIN before.regions[r[1]] :
                             /\ Len(before.regions[r[1]]) = Len(after.regions[r[1]])
                             /\ before.regions[r[1]][i] # after.regions[r[1]][i]}
           RowsOf(r) == [i \in 1..Cardinality(changed(r)) |->
                            BaseOf(r, before, after) - 1 + InOrder(changed(r))[i]]
           parts == [i \in DOMAIN Regions |-> RowsOf(Regions[i])]
           listed == FlattenSeq(parts)
           n == Least(Len(listed), MaxChanges)
<1>1. SnapshotDiff(a, b) = SubSeq(listed, 1, n)
  BY DEF SnapshotDiff, Loaded
<1>2. /\ 0 \in DOMAIN was /\ 0 \in DOMAIN is
      /\ \A w : w \in Steady({a, b}) => w \in DOMAIN was /\ w \in DOMAIN is /\ w \in Int
  <2>1. Words \subseteq Int
    BY MemoryAssumption DEF Words
  <2> QED
    BY <2>1 DEF Steady
<1>3. /\ before.ptr = was[0]
      /\ \A r \in Range(Regions) : /\ RegionRight(before.regions[r[1]], r, was)
                                   /\ RegionRight(after.regions[r[1]], r, is)
  BY <1>2 DEF CaptureInv, SnapshotsTrue
<1>4. was[0] = is[0] /\ Plausible(was[0])
  OBVIOUS
<1> HIDE DEF was, is
<1>5. ASSUME NEW r \in Range(Regions) PROVE RowsOf(r) \in Seq(S)
  <2> DEFINE old == before.regions[r[1]]
             new == after.regions[r[1]]
             C == changed(r)
             k == Cardinality(C)
             base == BaseOf(r, before, after)
  <2>1. RegionRight(old, r, was) /\ RegionRight(new, r, is)
    BY <1>3
  <2>2. Len(old) \in Nat /\ DOMAIN old = 1..Len(old)
    BY <2>1 DEF RegionRight, IsBytes
  <2>3. base = RegionAt(r, was[0]) /\ base \in Nat
    <3>1. r[2] \in Nat
      BY RegionFacts
    <3>2. was[0] \in Nat
      BY <1>4, MemoryAssumption DEF Plausible, Words
    <3> HIDE DEF before
    <3> QED
      BY <1>3, <3>1, <3>2 DEF BaseOf, RegionAt
  <2>4. C = {i \in DOMAIN old : Len(old) = Len(new) /\ old[i] # new[i]}
    OBVIOUS
  <2> HIDE DEF old, new, base, C
  <2>5. IsFiniteSet(C) /\ C \in SUBSET Nat
    <3>1. 1 \in Int /\ Len(old) \in Int
      BY <2>2
    <3>2. IsFiniteSet(1..Len(old))
      BY ONLY <3>1, FS_Interval
    <3>3. C \in SUBSET (1..Len(old))
      BY <2>2, <2>4
    <3>4. IsFiniteSet(C)
      BY ONLY <3>2, <3>3, FS_Subset
    <3> QED
      BY <2>2, <3>3, <3>4
  <2>6. /\ Cardinality(C) \in Nat
        /\ InOrder(C) \in [1..Cardinality(C) -> C]
    BY <2>5, InOrderFacts
  <2>7. RowsOf(r) = [i \in 1..k |-> base - 1 + InOrder(C)[i]]
    BY DEF C, base
  <2> HIDE DEF k
  <2>8. ASSUME NEW i \in 1..k PROVE base - 1 + InOrder(C)[i] \in S
    <3> DEFINE j == InOrder(C)[i]
               w == base - 1 + j
    <3>1. j \in C
      BY <2>6 DEF k
    <3> HIDE DEF j
    <3>2. j \in Nat /\ j \in DOMAIN old /\ Len(old) = Len(new) /\ old[j] # new[j]
      BY <2>4, <2>5, <3>1
    <3>3. w \in Int /\ w = (RegionAt(r, was[0]) - 1) + j
      BY <2>3, <3>2
    <3> HIDE DEF w
    <3>4. w \in DOMAIN was /\ w \in DOMAIN is => was[w] # is[w]
      BY <1>2, <1>4, <2>1, <3>2, <3>3, RowIsReal
    <3> QED
      BY <3>3, <3>4 DEF w, j
  <2> HIDE DEF S, RowsOf
  <2>9. RowsOf(r) \in [1..k -> S]
    BY <2>7, <2>8
  <2>10. k \in Nat
    BY <2>6 DEF k
  <2> QED
    BY <2>9, <2>10
<1> HIDE DEF RowsOf, S
<1>6. parts \in Seq(Seq(S))
  <2>1. Len(Regions) \in Nat /\ DOMAIN Regions = 1..Len(Regions)
    BY MemoryAssumption
  <2>2. \A i \in DOMAIN Regions : RowsOf(Regions[i]) \in Seq(S)
    BY <1>5 DEF Range
  <2>3. parts \in [1..Len(Regions) -> Seq(S)]
    BY <2>1, <2>2
  <2> HIDE DEF parts
  <2> QED
    BY <2>1, <2>3
<1> HIDE DEF parts
<1>7. listed \in Seq(S)
  BY <1>6, Flattened
<1> HIDE DEF listed
<1>8. n \in Nat /\ n <= Len(listed) /\ Len(listed) \in Nat
  BY <1>7, MemoryAssumption DEF Least
<1> HIDE DEF n
<1>9. SubSeq(listed, 1, n) \in Seq(S)
  <2>1. \A i \in 1..n : listed[i] \in S
    <3> SUFFICES ASSUME NEW i \in 1..n PROVE listed[i] \in S
      OBVIOUS
    <3>1. i \in 1..Len(listed)
      BY <1>8
    <3> QED
      BY <1>7, <3>1, ElementOfSeq
  <2>2. 1 \in Int /\ n \in Int
    BY <1>8
  <2> QED
    BY <2>1, <2>2, SubSeqProperties
<1>10. \A i \in DOMAIN SnapshotDiff(a, b) : SnapshotDiff(a, b)[i] \in S
  <2> DEFINE s == SnapshotDiff(a, b)
  <2>1. s \in Seq(S)
    BY <1>1, <1>9
  <2> HIDE DEF s
  <2>2. \A i \in DOMAIN s : s[i] \in S
    BY <2>1
  <2> QED
    BY <2>2 DEF s
<1>11. \A w \in S : w \in Steady({a, b}) => was[w] # is[w]
  BY <1>2 DEF S
<1> QED
  BY <1>10, <1>11 DEF was, is

(* What run_explore.py reports between two snapshots changed, wherever the  *)
(* regions are and however many rows are kept, if the profile stayed.       *)
THEOREM SnapshotRowsAreRealTheorem == CaptureSpec => []SnapshotRowsAreReal
BY CaptureInvTheorem, SnapshotFacts, PTL
-----------------------------------------------------------------------------
(* Comparisons of captures: finite sets with two elements or one.          *)
LEMMA AtLeastTwo ==
    ASSUME NEW S, IsFiniteSet(S)
    PROVE  /\ Cardinality(S) > 1 <=> \E x, y \in S : x # y
           /\ Cardinality(S) >= 2 <=> \E x, y \in S : x # y
           /\ Cardinality(S) = 1 <=> \E x \in S : S = {x}
<1>1. Cardinality(S) \in Nat
  BY FS_CardinalityType
<1>2. Cardinality(S) = 0 <=> S = {}
  BY FS_EmptySet
<1>3. Cardinality(S) = 1 <=> \E x : S = {x}
  BY FS_Singleton
<1>4. (\E x : S = {x}) <=> \E x \in S : S = {x}
  OBVIOUS
<1>5. (\E x, y \in S : x # y) <=> ~(S = {} \/ \E x : S = {x})
  <2>1. (\E x, y \in S : x # y) => ~(S = {} \/ \E x : S = {x})
    OBVIOUS
  <2>2. ASSUME S # {}, ~ \E x : S = {x} PROVE \E x, y \in S : x # y
    <3>1. PICK x \in S : TRUE
      BY <2>2
    <3>2. S # {x}
      BY <2>2
    <3>3. PICK y \in S : y # x
      BY <3>1, <3>2
    <3> QED
      BY <3>1, <3>3
  <2> QED
    BY <2>1, <2>2
<1> QED
  BY <1>1, <1>2, <1>3, <1>4, <1>5

\* The image of a finite set.
LEMMA ImageIsFinite ==
    ASSUME NEW S, IsFiniteSet(S), NEW f
    PROVE  IsFiniteSet({f[x] : x \in S})
<1> DEFINE T == {f[x] : x \in S}
           g == [x \in S |-> f[x]]
<1>1. g \in Surjection(S, T)
  BY DEF Surjection
<1> HIDE DEF g, T
<1>2. IsFiniteSet(T)
  BY ONLY <1>1, IsFiniteSet(S), FS_Surjection
<1> QED
  BY <1>2 DEF T

\* Groups by what stands before the dash.
GroupOf(names, m) == {n \in names : Prefix[n] = Prefix[m]}

\* The groups are told apart exactly if they differ and each agrees with itself.
LEMMA GroupSplitFacts ==
    ASSUME NEW names, IsFiniteSet(names), NEW values
    PROVE  GroupSplit(values, PrefixGroups(names)) <=>
              /\ \E n, m \in names : values[n] # values[m]
              /\ \A n, m \in names : Prefix[n] = Prefix[m] => values[n] = values[m]
<1> DEFINE groups == PrefixGroups(names)
           all == {values[n] : n \in UNION groups}
           of(g) == {values[n] : n \in g}
           Differ == \E n, m \in names : values[n] # values[m]
           Alike == \A n, m \in names : Prefix[n] = Prefix[m] => values[n] = values[m]
<1>1. groups = {GroupOf(names, m) : m \in names}
  BY DEF PrefixGroups, GroupOf
<1>2. UNION groups = names
  BY <1>1 DEF GroupOf
<1>3. IsFiniteSet(groups)
  <2> DEFINE f == [m \in names |-> GroupOf(names, m)]
  <2>1. groups = {f[m] : m \in names}
    BY <1>1
  <2> HIDE DEF f, groups
  <2>2. IsFiniteSet({f[m] : m \in names})
    BY ImageIsFinite
  <2> QED
    BY <2>1, <2>2
<1>4. ASSUME NEW g \in SUBSET names PROVE IsFiniteSet(of(g)) /\ IsFiniteSet(g)
  <2>1. IsFiniteSet(g)
    BY ONLY <1>4, IsFiniteSet(names), FS_Subset
  <2> QED
    BY <2>1, ImageIsFinite
<1>5. IsFiniteSet(all) /\ all = of(names)
  BY <1>2, <1>4
<1>6. GroupSplit(values, groups) <=>
         /\ Cardinality(groups) >= 2
         /\ \A g \in groups : Cardinality(of(g)) = 1
         /\ Cardinality(all) > 1
  BY DEF GroupSplit
<1> HIDE DEF groups, all, of
<1>7. Cardinality(all) > 1 <=> Differ
  <2>1. Cardinality(all) > 1 <=> \E x, y \in all : x # y
    BY <1>5, AtLeastTwo
  <2>2. \A x : x \in all <=> \E n \in names : x = values[n]
    BY <1>5 DEF of
  <2> QED
    BY <2>1, <2>2
<1>8. ASSUME NEW m \in names
      PROVE  (Cardinality(of(GroupOf(names, m))) = 1 <=>
                 \A n \in names : Prefix[n] = Prefix[m] => values[n] = values[m])
  <2> DEFINE g == GroupOf(names, m)
  <2>1. g \in SUBSET names /\ m \in g
    BY DEF GroupOf
  <2>2. \A n : n \in g <=> n \in names /\ Prefix[n] = Prefix[m]
    BY DEF GroupOf
  <2> HIDE DEF g
  <2>3. \A x : x \in of(g) <=> \E n \in g : x = values[n]
    BY DEF of
  <2>4. IsFiniteSet(of(g))
    BY <1>4, <2>1
  <2>5. Cardinality(of(g)) = 1 <=> \E x \in of(g) : of(g) = {x}
    BY <2>4, AtLeastTwo
  <2>6. ASSUME \E x \in of(g) : of(g) = {x}, NEW n \in names, Prefix[n] = Prefix[m]
        PROVE  values[n] = values[m]
    <3>1. values[n] \in of(g) /\ values[m] \in of(g)
      BY <2>1, <2>2, <2>3, <2>6
    <3> QED
      BY <2>6, <3>1
  <2>7. ASSUME \A n \in names : Prefix[n] = Prefix[m] => values[n] = values[m]
        PROVE  \E x \in of(g) : of(g) = {x}
    <3>1. values[m] \in of(g)
      BY <2>1, <2>3
    <3>2. \A x \in of(g) : x = values[m]
      BY <2>2, <2>3, <2>7
    <3> QED
      BY <3>1, <3>2
  <2> QED
    BY <2>5, <2>6, <2>7 DEF g
<1>9. (\A g \in groups : Cardinality(of(g)) = 1) <=> Alike
  BY <1>1, <1>8
<1>10. ASSUME Differ, Alike PROVE Cardinality(groups) >= 2
  <2>1. PICK n \in names, m \in names : values[n] # values[m]
    BY <1>10
  <2>2. Prefix[n] # Prefix[m]
    BY <1>10, <2>1
  <2>3. n \in GroupOf(names, n) /\ n \notin GroupOf(names, m)
    BY <2>2 DEF GroupOf
  <2>4. \E x, y \in groups : x # y
    BY <1>1, <2>3
  <2> QED
    BY <1>3, <2>4, AtLeastTwo
<1> HIDE DEF Differ, Alike
<1>11. GroupSplit(values, groups) <=> Differ /\ Alike
  BY <1>6, <1>7, <1>9, <1>10
<1> QED
  BY <1>11 DEF Differ, Alike, groups

\* A word of a file that stood still while it was written.
LEMMA InFileIsTrue ==
    ASSUME CaptureInv, NEW names \in SUBSET {n \in Names : truth[n] # Nothing}, names # {},
           NEW w, w \in Steady(names) \cap Compared(names), NEW n \in names
    PROVE  InFile(n, w) = truth[n][w]
<1> DEFINE of(m) == files.captures[m]
           one == CHOOSE m \in names : TRUE
           Holds(b) == w \in b..(b + Len(of(n)[b]) - 1)
<1>1. one \in names
  OBVIOUS
<1> HIDE DEF one
<1>2. PICK b \in CommonBases(names) : \E i \in 1..Len(of(one)[b]) : w = b + i - 1
  BY DEF Compared, one
<1>3. PICK i \in 1..Len(of(one)[b]) : w = b + i - 1
  BY <1>2
<1>4. b \in DOMAIN of(n) /\ Len(of(one)[b]) = Len(of(n)[b])
  BY <1>1, <1>2 DEF CommonBases
<1>5. \A c \in DOMAIN of(n) : c \in Nat /\ Len(of(n)[c]) \in Nat /\ Agrees(of(n)[c], c, truth[n])
  BY DEF CaptureInv, ChunkFiles, CapturesTrue
<1>6. Holds(b)
  <2>1. b \in Nat /\ i \in 1..Len(of(n)[b]) /\ Len(of(n)[b]) \in Nat
    BY <1>3, <1>4, <1>5
  <2> HIDE DEF of
  <2> QED
    BY <1>3, <2>1
<1> DEFINE c == CHOOSE c \in DOMAIN of(n) : Holds(c)
<1>7. c \in DOMAIN of(n) /\ Holds(c)
  BY <1>4, <1>6
<1>8. InFile(n, w) = of(n)[c][w - c + 1]
  BY DEF InFile
<1> HIDE DEF c
<1>9. w \in DOMAIN truth[n]
  BY DEF Steady
<1>10. /\ w - c + 1 \in 1..Len(of(n)[c]) /\ c + (w - c + 1) - 1 = w
  <2>1. c \in Nat /\ Len(of(n)[c]) \in Nat /\ w \in c..(c + Len(of(n)[c]) - 1)
    BY <1>5, <1>7
  <2> HIDE DEF of
  <2> QED
    BY <2>1
<1>11. of(n)[c][w - c + 1] = truth[n][w]
  BY <1>5, <1>7, <1>9, <1>10 DEF Agrees
<1> QED
  BY <1>8, <1>11

\* The first of finitely many rows: all, or as many as wanted, before each other one.
LEMMA FirstRowsFacts ==
    ASSUME NEW all \in SUBSET Int, IsFiniteSet(all), NEW worth, \A w \in all : worth[w] \in Int,
           NEW limit \in Nat, NEW w \in all, w \notin FirstRows(all, worth, limit)
    PROVE  /\ Cardinality(FirstRows(all, worth, limit)) = limit
           /\ \A v \in FirstRows(all, worth, limit) : Precedes(worth, v, w)
<1> DEFINE first == FirstRows(all, worth, limit)
           Before(v) == {u \in all : Precedes(worth, u, v)}
           rank == [v \in all |-> Cardinality(Before(v))]
<1>1. first = {v \in all : rank[v] < limit}
  BY DEF FirstRows
<1>2. ASSUME NEW u \in all, NEW v \in all
      PROVE  /\ u = v \/ Precedes(worth, u, v) \/ Precedes(worth, v, u)
             /\ ~Precedes(worth, v, v)
             /\ \A x \in all : Precedes(worth, x, u) /\ Precedes(worth, u, v) => Precedes(worth, x, v)
  <2>1. /\ u \in Int /\ v \in Int /\ worth[u] \in Int /\ worth[v] \in Int
        /\ \A x \in all : x \in Int /\ worth[x] \in Int
    OBVIOUS
  <2> QED
    BY <2>1 DEF Precedes
<1>3. ASSUME NEW v \in all
      PROVE  /\ Before(v) \in SUBSET all /\ IsFiniteSet(Before(v))
             /\ rank[v] = Cardinality(Before(v)) /\ rank[v] \in Nat
  <2>1. Before(v) \in SUBSET all
    OBVIOUS
  <2>2. IsFiniteSet(Before(v))
    BY ONLY <2>1, IsFiniteSet(all), FS_Subset
  <2> QED
    BY <2>1, <2>2, FS_CardinalityType
<1>4. ASSUME NEW v \in all, NEW u \in Before(v) PROVE rank[u] < rank[v]
  <2>1. /\ u \in all /\ u \in Before(v) /\ u \notin Before(u)
        /\ Before(u) \in SUBSET Before(v)
    BY <1>2
  <2> HIDE DEF Before, rank
  <2>2. /\ Cardinality(Before(u)) <= Cardinality(Before(v))
        /\ Cardinality(Before(v)) = Cardinality(Before(u)) => Before(v) = Before(u)
    <3>1. IsFiniteSet(Before(v))
      BY <1>3
    <3> QED
      BY ONLY <2>1, <3>1, FS_Subset
  <2>3. Before(u) # Before(v)
    BY <2>1
  <2> QED
    BY <1>3, <2>1, <2>2, <2>3
<1>5. \A u, v \in all : u \in Before(v) <=> Precedes(worth, u, v)
  OBVIOUS
<1> HIDE DEF Before, rank, first
<1>6. ASSUME NEW u \in first, NEW v \in all, v \notin first PROVE Precedes(worth, u, v)
  <2>1. u \in all /\ rank[u] < limit /\ ~(rank[v] < limit)
    BY <1>1, <1>6
  <2>2. ~(rank[v] < rank[u])
    BY <1>3, <2>1
  <2>3. v \notin Before(u) /\ u # v
    BY <1>4, <1>6, <2>1, <2>2
  <2> QED
    BY <1>2, <1>5, <2>1, <2>3
<1>7. first \in SUBSET all /\ IsFiniteSet(first) /\ Cardinality(first) \in Nat
  <2>1. first \in SUBSET all
    BY <1>1
  <2>2. IsFiniteSet(first)
    BY ONLY <2>1, IsFiniteSet(all), FS_Subset
  <2> QED
    BY <2>1, <2>2, FS_CardinalityType
<1>8. Cardinality(first) >= limit
  <2> DEFINE others == all \ first
             ranks == {rank[v] : v \in others}
  <2>1. w \in others
    BY DEF first
  <2>2. IsFiniteSet(others)
    <3>1. others \in SUBSET all
      OBVIOUS
    <3> QED
      BY ONLY <3>1, IsFiniteSet(all), FS_Subset
  <2>3. IsFiniteSet(ranks) /\ ranks # {} /\ ranks \in SUBSET Nat
    <3>1. ranks \in SUBSET Nat
      BY <1>3
    <3>2. IsFiniteSet(ranks)
      <4> HIDE DEF others
      <4> QED
        BY <2>2, ImageIsFinite
    <3> QED
      BY <2>1, <3>1, <3>2
  <2>4. Min(ranks) \in ranks /\ \A x \in ranks : Min(ranks) <= x
    BY <2>3, LeastAndGreatest
  <2>5. PICK v \in others : \A u \in others : rank[v] <= rank[u]
    BY <2>4
  <2>6. ASSUME NEW u \in Before(v) PROVE u \in first
    <3>1. u \in all /\ rank[u] < rank[v] /\ v \in all
      BY <1>3, <1>4, <2>5
    <3>2. ~(rank[v] <= rank[u])
      BY <1>3, <3>1
    <3> QED
      BY <2>5, <3>1, <3>2
  <2>7. Before(v) \in SUBSET first
    BY <2>6
  <2>8. Cardinality(Before(v)) <= Cardinality(first)
    BY ONLY <1>7, <2>7, FS_Subset
  <2>9. ~(rank[v] < limit) /\ v \in all
    BY <1>1, <2>5
  <2> QED
    BY <1>3, <1>7, <2>8, <2>9
<1>9. Cardinality(first) <= limit
  <2>1. CASE first = {}
    <3>1. Cardinality(first) = 0
      BY <2>1, FS_EmptySet
    <3> QED
      BY <3>1
  <2>2. CASE first # {}
    <3> DEFINE ranks == {rank[v] : v \in first}
    <3>1. IsFiniteSet(ranks) /\ ranks # {} /\ ranks \in SUBSET Nat
      <4>1. ranks \in SUBSET Nat
        BY <1>3, <1>7
      <4>2. IsFiniteSet(ranks)
        BY <1>7, ImageIsFinite
      <4> QED
        BY <2>2, <4>1, <4>2
    <3>2. Max(ranks) \in ranks /\ \A x \in ranks : x <= Max(ranks)
      BY <3>1, LeastAndGreatest
    <3>3. PICK v \in first : \A u \in first : rank[u] <= rank[v]
      BY <3>2
    <3>4. ASSUME NEW u \in first \ {v} PROVE u \in Before(v)
      <4>1. u \in all /\ v \in all /\ rank[u] <= rank[v] /\ u # v
        BY <1>7, <3>3
      <4>2. v \notin Before(u)
        BY <1>3, <1>4, <4>1
      <4> QED
        BY <1>2, <1>5, <4>1, <4>2
    <3>5. first \ {v} \in SUBSET Before(v)
      BY <3>4
    <3>6. /\ IsFiniteSet(Before(v)) /\ rank[v] = Cardinality(Before(v)) /\ rank[v] \in Nat
          /\ rank[v] < limit
      BY <1>1, <1>3, <1>7
    <3>7. Cardinality(first \ {v}) <= Cardinality(Before(v))
      BY ONLY <3>5, <3>6, FS_Subset
    <3>8. Cardinality(first \ {v}) = Cardinality(first) - 1
      BY <1>7, FS_RemoveElement
    <3> QED
      BY <1>7, <3>6, <3>7, <3>8
  <2> QED
    BY <2>1, <2>2
<1>10. Cardinality(first) = limit
  BY <1>7, <1>8, <1>9
<1>11. \A v \in first : Precedes(worth, v, w)
  BY <1>6 DEF first
<1> QED
  BY <1>10, <1>11 DEF first

\* The words that captures have in common are finitely many numbers.
LEMMA ComparedFacts ==
    ASSUME CaptureInv, NEW names \in SUBSET Names, names # {}
    PROVE  Compared(names) \in SUBSET Int /\ IsFiniteSet(Compared(names))
<1> DEFINE one == CHOOSE n \in names : TRUE
           file == files.captures[one]
           Piecewise(b) == {b + i - 1 : i \in 1..Len(file[b])}
           common == CommonBases(names)
<1>1. one \in names
  OBVIOUS
<1>2. Compared(names) = UNION {Piecewise(b) : b \in common}
  BY DEF Compared
<1> HIDE DEF one
<1>3. IsFiniteSet(DOMAIN file) /\ \A b \in DOMAIN file : b \in Nat /\ Len(file[b]) \in Nat
  BY <1>1 DEF CaptureInv, ChunkFiles
<1>4. common \in SUBSET DOMAIN file
  BY <1>1 DEF CommonBases
<1>5. IsFiniteSet(common)
  BY ONLY <1>3, <1>4, FS_Subset
<1> HIDE DEF file, common
<1>6. ASSUME NEW b \in common PROVE Piecewise(b) \in SUBSET Int /\ IsFiniteSet(Piecewise(b))
  <2>1. b \in Nat /\ Len(file[b]) \in Nat
    BY <1>3, <1>4
  <2>2. Piecewise(b) \in SUBSET (b..(b + Len(file[b])))
    BY <2>1
  <2>3. IsFiniteSet(b..(b + Len(file[b])))
    BY <2>1, FS_Interval
  <2>4. IsFiniteSet(Piecewise(b))
    BY ONLY <2>2, <2>3, FS_Subset
  <2> QED
    BY <2>2, <2>4
<1> DEFINE f == [b \in common |-> Piecewise(b)]
           pieces == {f[b] : b \in common}
<1>7. pieces = {Piecewise(b) : b \in common}
  OBVIOUS
<1> HIDE DEF Piecewise
<1>8. IsFiniteSet(pieces)
  <2> HIDE DEF f
  <2> QED
    BY <1>5, ImageIsFinite
<1>9. \A T \in pieces : IsFiniteSet(T) /\ T \in SUBSET Int
  BY <1>6
<1>10. Compared(names) = UNION pieces
  BY <1>2, <1>7
<1> HIDE DEF pieces
<1>11. IsFiniteSet(UNION pieces)
  BY ONLY <1>8, <1>9, FS_UNION
<1> QED
  BY <1>9, <1>10, <1>11

\* What differs and what splits the groups is so in truth, for a word that stood still.
LEMMA DifferingIsTrue ==
    ASSUME CaptureInv, NEW names \in SUBSET {n \in Names : truth[n] # Nothing},
           Cardinality(names) > 1, NEW w, w \in Steady(names) \cap Compared(names)
    PROVE  /\ w \in Differing(names) <=> \E n, m \in names : truth[n][w] # truth[m][w]
           /\ Splits(names, w) <=>
                 /\ \E n, m \in names : truth[n][w] # truth[m][w]
                 /\ \A n, m \in names : Prefix[n] = Prefix[m] => truth[n][w] = truth[m][w]
<1> DEFINE value(n) == truth[n][w]
           differ == \E n, m \in names : value(n) # value(m)
           told == [n \in names |-> InFile(n, w)]
           seen == ValuesIn(names, w)
<1>1. IsFiniteSet(names)
  <2>1. names \in SUBSET Names
    OBVIOUS
  <2>2. IsFiniteSet(Names)
    BY MemoryAssumption
  <2> QED
    BY ONLY <2>1, <2>2, FS_Subset
<1>2. names # {}
  <2>1. \E x, y \in names : x # y
    BY <1>1, AtLeastTwo
  <2> QED
    BY <2>1
<1>3. \A n \in names : InFile(n, w) = value(n)
  BY <1>2, InFileIsTrue
<1>4. Cardinality(seen) > 1 <=> differ
  <2>1. seen = {told[n] : n \in names}
    BY DEF ValuesIn
  <2>2. IsFiniteSet({told[n] : n \in names})
    <3> HIDE DEF told
    <3> QED
      BY <1>1, ImageIsFinite
  <2>3. \A x : x \in seen <=> \E n \in names : x = value(n)
    BY <1>3 DEF ValuesIn
  <2> HIDE DEF seen, told, value
  <2>4. IsFiniteSet(seen)
    BY <2>1, <2>2
  <2>5. Cardinality(seen) > 1 <=> \E x, y \in seen : x # y
    BY ONLY <2>4, AtLeastTwo
  <2> QED
    BY <2>3, <2>5
<1>5. w \in Differing(names) <=> differ
  BY <1>4 DEF Differing
<1>6. Splits(names, w) <=>
         /\ differ
         /\ \A n, m \in names : Prefix[n] = Prefix[m] => value(n) = value(m)
  <2>1. \A n \in names : told[n] = value(n)
    BY <1>3
  <2>2. Splits(names, w) <=> GroupSplit(told, PrefixGroups(names))
    BY DEF Splits
  <2> HIDE DEF told, value
  <2>3. GroupSplit(told, PrefixGroups(names)) <=>
           /\ \E n, m \in names : told[n] # told[m]
           /\ \A n, m \in names : Prefix[n] = Prefix[m] => told[n] = told[m]
    BY <1>1, GroupSplitFacts
  <2> QED
    BY <2>1, <2>2, <2>3
<1> QED
  BY <1>5, <1>6

\* Rows have a worth that is a number.
LEMMA WorthIsNumber ==
    ASSUME CaptureInv, NEW names \in SUBSET Names
    PROVE  /\ \A w \in Differing(names) : NDiffWorth(names)[w] \in Int
           /\ \A n, m \in Names : \A w \in Differing({n, m}) : DiffWorth(n, m)[w] \in Int
<1>1. ASSUME NEW w, NEW values, NEW flag \in Int PROVE Score(w, values, flag) \in Int
  <2> DEFINE small == IF \A v \in values : v < 256 THEN 5 ELSE 0
             near == IF Max(values) - Min(values) <= 20 THEN 2 ELSE 0
             heap == IF w \in Heap THEN 2 ELSE 0
             statics == IF w \in Statics THEN 1 ELSE 0
  <2>1. small \in Int /\ near \in Int /\ heap \in Int /\ statics \in Int
    OBVIOUS
  <2>2. Score(w, values, flag) = small + flag + near + heap + statics
    BY DEF Score
  <2> HIDE DEF small, near, heap, statics
  <2> QED
    BY <2>1, <2>2
<1>2. ASSUME NEW w \in Differing(names) PROVE NDiffWorth(names)[w] \in Int
  <2> DEFINE values == ValuesIn(names, w)
             flag == IF values \subseteq 0..1 THEN 8 ELSE IF values \subseteq 0..2 THEN 6 ELSE 0
             split == IF Splits(names, w) THEN 30 ELSE 0
  <2>1. NDiffWorth(names)[w] = Most * (Score(w, values, flag + split) + 1) - Cardinality(values)
    BY DEF NDiffWorth
  <2>2. flag + split \in Int
    <3>1. flag \in Int /\ split \in Int
      OBVIOUS
    <3> HIDE DEF flag, split
    <3> QED
      BY <3>1
  <2>3. Cardinality(values) \in Int
    <3> DEFINE f == [n \in names |-> InFile(n, w)]
    <3>1. names \in SUBSET Names /\ IsFiniteSet(Names)
      BY MemoryAssumption
    <3>2. IsFiniteSet(names)
      BY ONLY <3>1, FS_Subset
    <3>3. values = {f[n] : n \in names}
      BY DEF ValuesIn
    <3> HIDE DEF f, values
    <3>4. IsFiniteSet(values)
      BY <3>2, <3>3, ImageIsFinite
    <3> QED
      BY <3>4, FS_CardinalityType
  <2>4. Most \in Int
    BY FS_CardinalityType, MemoryAssumption DEF Most
  <2> HIDE DEF values, flag, split
  <2>5. Score(w, values, flag + split) \in Int
    BY <1>1, <2>2
  <2> DEFINE score == Score(w, values, flag + split)
             many == Cardinality(values)
  <2> HIDE DEF score, many
  <2>6. score \in Int /\ many \in Int /\ NDiffWorth(names)[w] = Most * (score + 1) - many
    BY <2>1, <2>3, <2>5 DEF score, many
  <2> QED
    BY <2>4, <2>6
<1>3. ASSUME NEW n \in Names, NEW m \in Names, NEW w \in Differing({n, m})
      PROVE  DiffWorth(n, m)[w] \in Int
  <2> DEFINE values == ValuesIn({n, m}, w)
             flag == IF values \subseteq 0..2 THEN 5 ELSE 0
  <2>1. DiffWorth(n, m)[w] = Score(w, values, flag)
    BY DEF DiffWorth
  <2>2. flag \in Int
    OBVIOUS
  <2> HIDE DEF values, flag
  <2> QED
    BY <1>1, <2>1, <2>2
<1> QED
  BY <1>2, <1>3

\* A report tells the truth if what it is drawn from does.
LEMMA ReportFacts ==
    ASSUME NEW candidates \in SUBSET Int, IsFiniteSet(candidates),
           NEW worth, \A w \in candidates : worth[w] \in Int, NEW limit \in Nat, NEW sure
    PROVE  /\ FirstRows(candidates, worth, limit) \cap sure \subseteq candidates \cap sure
           /\ ReportsAll(candidates \cap sure, FirstRows(candidates, worth, limit), worth, limit)
<1>1. FirstRows(candidates, worth, limit) \subseteq candidates
  BY DEF FirstRows
<1>2. ASSUME NEW w \in candidates \cap sure, w \notin FirstRows(candidates, worth, limit)
      PROVE  /\ Cardinality(FirstRows(candidates, worth, limit)) = limit
             /\ \A v \in FirstRows(candidates, worth, limit) : Precedes(worth, v, w)
  <2>1. w \in candidates
    OBVIOUS
  <2> QED
    BY ONLY candidates \in SUBSET Int, IsFiniteSet(candidates), <1>2, <2>1,
       \A v \in candidates : worth[v] \in Int, limit \in Nat, FirstRowsFacts
<1> QED
  BY <1>1, <1>2 DEF ReportsAll

\* What may be reported is finitely many numbers.
LEMMA CandidatesFinite ==
    ASSUME CaptureInv, NEW names \in SUBSET Names, names # {},
           NEW candidates \in SUBSET Compared(names)
    PROVE  candidates \in SUBSET Int /\ IsFiniteSet(candidates)
<1>1. Compared(names) \in SUBSET Int /\ IsFiniteSet(Compared(names))
  BY ComparedFacts
<1>2. candidates \in SUBSET Int
  BY <1>1
<1>3. IsFiniteSet(candidates)
  BY ONLY <1>1, candidates \in SUBSET Compared(names), FS_Subset
<1> QED
  BY <1>2, <1>3

\* Hence both reports tell the truth, as far as they go.
LEMMA ComparisonFacts == CaptureInv => ComparisonIsReal
<1> SUFFICES ASSUME CaptureInv, NEW names \in SUBSET {n \in Names : truth[n] # Nothing},
                    Cardinality(names) > 1
             PROVE  LET sure == Steady(names) \cap Compared(names)
                        differ(w) == \E n, m \in names : truth[n][w] # truth[m][w]
                        apart(w) == \A n, m \in names :
                                       Prefix[n] = Prefix[m] => truth[n][w] = truth[m][w]
                    IN /\ \A only \in BOOLEAN :
                             LET meant == {w \in sure : differ(w) /\ (only => apart(w))} IN
                             /\ NDiff(names, only) \cap sure \subseteq meant
                             /\ ReportsAll(meant, NDiff(names, only), NDiffWorth(names), TopRows)
                       /\ Cardinality(names) = 2 => \A n \in names : \A m \in names \ {n} :
                             LET worth == DiffWorth(n, m)
                                 scoring == {w \in sure : differ(w) /\ worth[w] > 0}
                             IN /\ Diff(n, m) \cap sure \subseteq scoring
                                /\ ReportsAll(scoring, Diff(n, m), worth, DiffRows)
  BY DEF ComparisonIsReal
<1> DEFINE sure == Steady(names) \cap Compared(names)
           differ(w) == \E n, m \in names : truth[n][w] # truth[m][w]
           apart(w) == \A n, m \in names : Prefix[n] = Prefix[m] => truth[n][w] = truth[m][w]
<1>1. names \in SUBSET Names /\ IsFiniteSet(names)
  <2>1. names \in SUBSET Names
    OBVIOUS
  <2>2. IsFiniteSet(Names)
    BY MemoryAssumption
  <2> QED
    BY ONLY <2>1, <2>2, FS_Subset
<1>2. names # {}
  <2>1. \E x, y \in names : x # y
    BY <1>1, AtLeastTwo
  <2> QED
    BY <2>1
<1>3. TopRows \in Nat /\ DiffRows \in Nat
  BY MemoryAssumption
<1>4. ASSUME NEW w \in sure
      PROVE  /\ w \in Differing(names) <=> differ(w)
             /\ Splits(names, w) <=> differ(w) /\ apart(w)
  <2>1. w \in Steady(names) \cap Compared(names)
    OBVIOUS
  <2> QED
    BY <2>1, DifferingIsTrue
<1>5. ASSUME NEW only \in BOOLEAN, NEW meant, meant = {w \in sure : differ(w) /\ (only => apart(w))}
      PROVE  /\ NDiff(names, only) \cap sure \subseteq meant
             /\ ReportsAll(meant, NDiff(names, only), NDiffWorth(names), TopRows)
  <2> DEFINE candidates == NDiffCandidates(names, only)
  <2>1. candidates \in SUBSET Compared(names) /\ candidates \in SUBSET Differing(names)
    BY DEF NDiffCandidates, Differing
  <2>2. \A w \in candidates : NDiffWorth(names)[w] \in Int
    BY <1>1, <2>1, WorthIsNumber
  <2>3. meant = candidates \cap sure
    <3>1. \A w : w \in candidates <=> w \in Differing(names) /\ (only => Splits(names, w))
      BY DEF NDiffCandidates
    <3> HIDE DEF candidates, sure, differ, apart
    <3>2. \A w \in sure : w \in candidates <=> differ(w) /\ (only => apart(w))
      BY <1>4, <3>1
    <3> QED
      BY <1>5, <3>2
  <2>4. NDiff(names, only) = FirstRows(candidates, NDiffWorth(names), TopRows)
    BY DEF NDiff
  <2> DEFINE worth == NDiffWorth(names)
  <2> HIDE DEF candidates, sure, worth
  <2>5. candidates \in SUBSET Int /\ IsFiniteSet(candidates)
    BY <1>1, <1>2, <2>1, CandidatesFinite
  <2>6. \A w \in candidates : worth[w] \in Int
    BY <2>2 DEF worth
  <2>7. /\ FirstRows(candidates, worth, TopRows) \cap sure \subseteq candidates \cap sure
        /\ ReportsAll(candidates \cap sure, FirstRows(candidates, worth, TopRows), worth, TopRows)
    BY ONLY <1>3, <2>5, <2>6, ReportFacts
  <2> QED
    BY <2>3, <2>4, <2>7 DEF worth
<1>6. ASSUME Cardinality(names) = 2, NEW n \in names, NEW m \in names \ {n},
             NEW scoring, scoring = {w \in sure : differ(w) /\ DiffWorth(n, m)[w] > 0}
      PROVE  /\ Diff(n, m) \cap sure \subseteq scoring
             /\ ReportsAll(scoring, Diff(n, m), DiffWorth(n, m), DiffRows)
  <2> DEFINE candidates == DiffCandidates(n, m)
  <2>1. names = {n, m}
    <3>1. \A x : IsFiniteSet({x}) /\ Cardinality({x}) = 1
      BY FS_Singleton
    <3>2. IsFiniteSet({n} \cup {m}) /\ Cardinality({n} \cup {m}) = 2
      <4>1. IsFiniteSet({n}) /\ Cardinality({n}) = 1 /\ m \notin {n}
        BY <1>6, <3>1
      <4>2. /\ IsFiniteSet({n} \cup {m})
            /\ Cardinality({n} \cup {m}) = IF m \in {n} THEN Cardinality({n}) ELSE Cardinality({n}) + 1
        BY ONLY <4>1, FS_AddElement
      <4> QED
        BY <4>1, <4>2
    <3>3. {n} \cup {m} \in SUBSET names
      OBVIOUS
    <3>4. Cardinality(names) = Cardinality({n} \cup {m})
      BY <1>6, <3>2
    <3>5. names = {n} \cup {m}
      BY ONLY <1>1, <3>3, <3>4, FS_Subset
    <3> QED
      BY <3>5
  <2>2. \A w : w \in candidates <=> w \in Differing(names) /\ DiffWorth(n, m)[w] > 0
    BY <2>1 DEF DiffCandidates, DiffWorth
  <2>3. \A w : w \in Differing(names) => w \in Compared(names)
    BY DEF Differing
  <2>4. candidates \in SUBSET Compared(names)
    BY <2>2, <2>3
  <2>5. \A w \in candidates : DiffWorth(n, m)[w] \in Int
    <3>1. n \in Names /\ m \in Names
      OBVIOUS
    <3> HIDE DEF candidates
    <3> QED
      BY <1>1, <2>1, <2>2, <3>1, WorthIsNumber
  <2>6. Diff(n, m) = FirstRows(candidates, DiffWorth(n, m), DiffRows)
    BY DEF Diff
  <2> HIDE DEF candidates, sure, differ
  <2>7. scoring = candidates \cap sure
    BY <1>4, <1>6, <2>2
  <2> DEFINE worth == DiffWorth(n, m)
  <2> HIDE DEF worth
  <2>8. candidates \in SUBSET Int /\ IsFiniteSet(candidates)
    BY <1>1, <1>2, <2>4, CandidatesFinite
  <2>9. \A w \in candidates : worth[w] \in Int
    BY <2>5 DEF worth
  <2>10. /\ FirstRows(candidates, worth, DiffRows) \cap sure \subseteq candidates \cap sure
         /\ ReportsAll(candidates \cap sure, FirstRows(candidates, worth, DiffRows), worth, DiffRows)
    BY ONLY <1>3, <2>8, <2>9, ReportFacts
  <2> QED
    BY <2>6, <2>7, <2>10 DEF worth
<1> QED
  BY <1>5, <1>6

(* The reports of diff and ndiff in map_vehicle_selection.py, cut off as    *)
(* they are, tell the truth about every word that stood still while each    *)
(* capture was taken, and leave none out that ranks before one they have.   *)
THEOREM ComparisonIsRealTheorem == CaptureSpec => []ComparisonIsReal
BY CaptureInvTheorem, ComparisonFacts, PTL
=============================================================================
