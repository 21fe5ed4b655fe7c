---------------------------- MODULE RunnerProofs ----------------------------
(***************************************************************************)
(* The item pipeline of Runner is correct for every set of items and       *)
(* locations and every bound: the inventory is always a beginning of the   *)
(* server's log (InventoryPrefixTheorem), Runner implements ItemDelivery   *)
(* (RunnerImplementsDelivery), no check of a session is lost while the     *)
(* link is up (ChecksAccountedTheorem), and each item has its effect once  *)
(* (GrantedOnceTheorem).  They rest on the invariant IInv, which says what *)
(* the packets on their way look like.                                     *)
(***************************************************************************)
EXTENDS Runner, Arithmetic, SequenceTheorems, TLAPS

\* Requests and packets are well formed.
LEMMA PacketTypes ==
    ASSUME TypeOK
    PROVE  /\ Connect \in Requests
           /\ Sync \in Requests
           /\ \A S \in SUBSET Locations : LocationChecks(S) \in Requests
           /\ \A S \in SUBSET Locations, m \in {"more", "last"} :
                 /\ ServerPacket("Connected", S, m) \in Packets
                 /\ ServerPacket("ConnectionRefused", S, m) \in Packets
                 /\ ServerPacket("RoomUpdate", S, m) \in Packets
           /\ \A f, t \in 0..Len(log), m \in {"more", "last"} :
                 Received(f, t, m) \in Packets
<1>1. \A f, t \in 0..Len(log) : SubSeq(log, f + 1, t) \in Seq(Items)
  BY DEF TypeOK
<1>2. \A f, t \in 0..Len(log), m \in {"more", "last"} : Received(f, t, m) \in Packets
  BY <1>1 DEF TypeOK, Received, Packets
<1>3. /\ Connect \in Requests
      /\ Sync \in Requests
      /\ \A S \in SUBSET Locations : LocationChecks(S) \in Requests
  BY DEF Connect, Sync, LocationChecks, Requests
<1>4. \A S \in SUBSET Locations, m \in {"more", "last"} :
         /\ ServerPacket("Connected", S, m) \in Packets
         /\ ServerPacket("ConnectionRefused", S, m) \in Packets
         /\ ServerPacket("RoomUpdate", S, m) \in Packets
  <2>1. <<>> \in Seq(Items) /\ 0 \in Nat
    OBVIOUS
  <2> QED BY <2>1 DEF ServerPacket, Packets
<1> QED BY <1>2, <1>3, <1>4

\* poll() is inside a message only while packets of it are left.
InMessage == pc \in {"batch", "resend"} => toClient # <<>>

\* The type invariant is inductive, together with InMessage.
LEMMA TypeInit == Init => TypeOK
BY DEF Init, TypeOK, Phases

\* Every action keeps the types.
LEMMA TypeStep == TypeOK /\ InMessage /\ [Next]_vars => TypeOK'
<1> SUFFICES ASSUME TypeOK, InMessage, [Next]_vars PROVE TypeOK'
  OBVIOUS
<1> USE DEF Phases, server, network, tracker, applier, checks, client
<1>a. ASSUME DiscardMessage PROVE toClient' \in Seq(Packets)
  BY <1>a DEF DiscardMessage, TypeOK
<1>b. ASSUME toClient # <<>>
      PROVE  /\ Head(toClient) \in Packets
             /\ Tail(toClient) \in Seq(Packets)
             /\ AfterPacket(Head(toClient)) \in Phases
  BY <1>b DEF TypeOK, AfterPacket
<1>c. ASSUME toServer # <<>>
      PROVE  Head(toServer) \in Requests /\ Tail(toServer) \in Seq(Requests)
  BY <1>c DEF TypeOK
<1>1. CASE Start
  BY <1>1, PacketTypes DEF Start, TypeOK
<1>2. ASSUME Exit PROVE TypeOK'
  BY <1>2 DEF Exit, TypeOK
<1>3. CASE Connected
  <2>1. checked_locations' \in SUBSET Locations
    BY <1>b, <1>3 DEF Connected, Packets
  <2> QED BY <1>a, <1>3, <2>1 DEF Connected, TypeOK
<1>4. CASE Prime
  BY <1>4 DEF Prime, TypeOK
<1>5. CASE PollNothing
  BY <1>5 DEF PollNothing, TypeOK
<1>6. CASE ReceiveItems
  <2> DEFINE packet == Head(toClient)
  <2>1. packet.items \in Seq(Items) /\ packet.index \in Nat
    BY <1>b, <1>6 DEF ReceiveItems, Reading, Packets
  <2>2. /\ inventory' \in Seq(Items)
        /\ next_index' \in Nat
        /\ new_items' \in Seq(Items)
    BY <1>6, <2>1 DEF Rebuilt, Collected, ReceiveItems, TypeOK
  <2> QED BY <1>6, <1>b, <2>2 DEF ReceiveItems, Reading, TypeOK
<1>7. CASE ReceiveGap
  BY <1>7, PacketTypes DEF Asked, ReceiveGap, TypeOK
<1>8. CASE ResendChecks
  <2>1. LocationChecks(sent_checks) \in Requests
    BY PacketTypes DEF TypeOK
  <2> QED BY <1>8, <1>b, <2>1 DEF ResendChecks, InMessage, TypeOK
<1>9. CASE PollRaises
  BY <1>9, <1>a DEF PollRaises, TypeOK
<1>10. CASE ReceiveRoomUpdate
  <2>1. checked_locations' \in SUBSET Locations
    BY <1>b, <1>10 DEF ReceiveRoomUpdate, Reading, Packets
  <2> QED BY <1>b, <1>10, <2>1 DEF ReceiveRoomUpdate, Reading, TypeOK
<1>11. CASE ApplyItem
  <2>1. Head(new_items) \in Items /\ Tail(new_items) \in Seq(Items)
    BY <1>11 DEF ApplyItem, TypeOK
  <2>2. Price[Head(new_items)] \in Nat
    BY <2>1, PriceAssumption
  <2> QED BY <1>11, <2>1, <2>2 DEF Credited, ApplyItem, TypeOK
<1>12. CASE ItemsApplied
  BY <1>12 DEF ItemsApplied, TypeOK
<1>13. CASE PollChecks
  BY <1>13 DEF Detected, PollChecks, TypeOK
<1>14. CASE SendChecks
  <2>1. LocationChecks(check_ids) \in Requests
    BY PacketTypes DEF TypeOK
  <2> QED BY <1>14, <2>1 DEF SendChecks, TypeOK
<1>15. CASE AcceptConnect
  <2> DEFINE accepted(b) == Append(toClient,
                                   ServerPacket("Connected", checked, b))
  <2>1. PICK b \in {"more", "last"} :
           toClient' = IF log = <<>> THEN accepted(b)
                       ELSE Append(accepted(b), Received(0, Len(log), "last"))
    BY <1>15 DEF AcceptConnect
  <2>2. accepted(b) \in Seq(Packets)
    <3>1. ServerPacket("Connected", checked, b) \in Packets
      BY PacketTypes DEF TypeOK
    <3>2. toClient \in Seq(Packets)
      BY DEF TypeOK
    <3> QED BY <3>1, <3>2
  <2>3. Received(0, Len(log), "last") \in Packets
    <3>1. 0 \in 0..Len(log) /\ Len(log) \in 0..Len(log)
      BY DEF TypeOK
    <3> QED BY <3>1, PacketTypes
  <2>4. toClient' \in Seq(Packets)
    BY <2>1, <2>2, <2>3
  <2> QED BY <1>15, <1>c, <2>4 DEF AcceptConnect, TypeOK
<1>16. CASE AnswerSync
  <2>1. Received(0, Len(log), "last") \in Packets
    <3>1. 0 \in 0..Len(log) /\ Len(log) \in 0..Len(log)
      BY DEF TypeOK
    <3> QED BY <3>1, PacketTypes
  <2>2. toClient' \in Seq(Packets)
    <3>1. toClient \in Seq(Packets)
      BY DEF TypeOK
    <3>2. \/ toClient' = Append(toClient, Received(0, Len(log), "last"))
          \/ toClient' = toClient
      BY <1>16 DEF AnswerSync
    <3> QED BY <2>1, <3>1, <3>2
  <2>3. cursor' \in 0..Len(log)
    BY <1>16 DEF AnswerSync, TypeOK
  <2> QED BY <1>16, <1>c, <2>2, <2>3 DEF AnswerSync, TypeOK
<1>17. CASE RegisterChecks
  <2>1. checked' \in SUBSET Locations
    BY <1>17, <1>c DEF RegisterChecks, Requests, TypeOK
  <2>2. ServerPacket("RoomUpdate", checked', "last") \in Packets
    BY <2>1, PacketTypes
  <2>3. toClient' \in Seq(Packets)
    BY <1>17, <2>2 DEF RegisterChecks, TypeOK
  <2> QED BY <1>17, <1>c, <2>1, <2>3 DEF RegisterChecks, TypeOK
<1>18. CASE SendNewItems
  <2>1. \A k \in cursor..Len(log), m \in {"more", "last"} :
           /\ Received(cursor, k, m) \in Packets
           /\ Received(k, Len(log), m) \in Packets
    BY PacketTypes DEF TypeOK
  <2>2. toClient' \in Seq(Packets)
    <3>1. toClient \in Seq(Packets) /\ cursor \in 0..Len(log)
          /\ Len(log) \in Nat
      BY DEF TypeOK
    <3>2. CASE toClient' = Append(toClient, Received(cursor, Len(log), "last"))
      BY <2>1, <3>1, <3>2
    <3>3. ASSUME NEW k \in (cursor + 1)..(Len(log) - 1),
                 toClient' = Append(Append(toClient, Received(cursor, k, "more")),
                                    Received(k, Len(log), "last"))
          PROVE  toClient' \in Seq(Packets)
      <4>1. k \in cursor..Len(log)
        BY <3>1
      <4> QED BY <2>1, <3>1, <3>3, <4>1
    <3> QED BY <1>18, <3>2, <3>3 DEF SendNewItems
  <2> QED BY <1>18, <2>2 DEF SendNewItems, TypeOK
<1>19. CASE RefuseConnect
  <2>1. ServerPacket("ConnectionRefused", {}, "last") \in Packets
    BY PacketTypes
  <2> QED BY <1>19, <1>c, <2>1 DEF RefuseConnect, TypeOK
<1>20. CASE Drop
  <2>1. toClient' \in Seq(Packets)
    BY <1>20 DEF Drop, TypeOK
  <2> QED BY <1>20, <2>1 DEF Drop, TypeOK
<1>21. ASSUME NEW i \in Items, Grant(i) PROVE TypeOK'
  BY <1>21 DEF Grant, TypeOK
<1>22. ASSUME NEW l \in Locations, Achieve(l) PROVE TypeOK'
  BY <1>22 DEF Achieve, TypeOK
<1>23. CASE UNCHANGED vars
  BY <1>23 DEF vars, TypeOK
<1> QED
  BY <1>1, <1>2, <1>3, <1>4, <1>5, <1>6, <1>7, <1>8, <1>9, <1>10, <1>11,
     <1>12, <1>13, <1>14, <1>15, <1>16, <1>17, <1>18, <1>19, <1>20, <1>21,
     <1>22, <1>23
  DEF Next, Process, Server, Environment, Refused, SendRaises, Stop
-----------------------------------------------------------------------------
(* What is on its way to the client: every ReceivedItems packet quotes the  *)
(* log, and the packets end further and further along it.                   *)
IsItems(p) == p.cmd = "ReceivedItems"
Upto(p) == p.index + Len(p.items)
Quotes(p, lg) ==
    /\ Upto(p) <= Len(lg)
    /\ \A n \in 1..Len(p.items) : p.items[n] = lg[p.index + n]
Faithful(q, lg) == \A k \in 1..Len(q) : IsItems(q[k]) => Quotes(q[k], lg)
Ascending(q, low, high) ==
    /\ \A k \in 1..Len(q) :
          IsItems(q[k]) => low <= Upto(q[k]) /\ Upto(q[k]) <= high
    /\ \A j, k \in 1..Len(q) :
          j < k /\ IsItems(q[j]) /\ IsItems(q[k]) => Upto(q[j]) <= Upto(q[k])

\* A packet's index and items are a number and a sequence.
LEMMA UptoType ==
    ASSUME NEW p \in Packets
    PROVE  /\ p.index \in Nat /\ p.items \in Seq(Items)
           /\ Len(p.items) \in Nat /\ Upto(p) \in Nat
BY DEF Packets, Upto

\* Appending a packet that reaches no less far than those before it.
LEMMA AppendPacket ==
    ASSUME NEW q \in Seq(Packets), NEW p \in Packets, NEW lg,
           NEW low \in Nat, NEW mid \in Nat, NEW high \in Nat,
           Faithful(q, lg), Ascending(q, low, mid), mid <= high,
           IsItems(p) => /\ Quotes(p, lg)
                         /\ low <= Upto(p)
                         /\ mid <= Upto(p) /\ Upto(p) <= high
    PROVE  /\ Append(q, p) \in Seq(Packets)
           /\ Faithful(Append(q, p), lg)
           /\ Ascending(Append(q, p), low, high)
<1> DEFINE r == Append(q, p)
<1>1. /\ r \in Seq(Packets)
      /\ Len(r) = Len(q) + 1
      /\ Len(q) \in Nat
      /\ r[Len(q) + 1] = p
      /\ \A k \in 1..Len(q) : r[k] = q[k]
  OBVIOUS
<1> HIDE DEF r
<1>2. Faithful(r, lg)
  BY <1>1 DEF Faithful
<1>3. \A k \in 1..Len(q) : q[k] \in Packets /\ Upto(q[k]) \in Nat
  BY UptoType
<1>4. Upto(p) \in Nat
  BY UptoType
<1>5. ASSUME NEW k \in 1..Len(r), IsItems(r[k])
      PROVE  low <= Upto(r[k]) /\ Upto(r[k]) <= high
  <2>1. CASE k = Len(q) + 1
    BY <1>1, <1>4, <1>5, <2>1
  <2>2. CASE k \in 1..Len(q)
    BY <1>1, <1>3, <1>5, <2>2 DEF Ascending
  <2> QED BY <1>1, <2>1, <2>2
<1>6. ASSUME NEW j \in 1..Len(r), NEW k \in 1..Len(r),
             j < k, IsItems(r[j]), IsItems(r[k])
      PROVE  Upto(r[j]) <= Upto(r[k])
  <2>0. j \in 1..Len(q)
    BY <1>1, <1>6
  <2>1. CASE k = Len(q) + 1
    BY <1>1, <1>3, <1>4, <1>6, <2>0, <2>1 DEF Ascending
  <2>2. CASE k \in 1..Len(q)
    BY <1>1, <1>6, <2>0, <2>2 DEF Ascending
  <2> QED BY <1>1, <2>1, <2>2
<1>7. Ascending(r, low, high)
  BY <1>5, <1>6 DEF Ascending
<1> QED BY <1>1, <1>2, <1>7 DEF r

\* Any stretch of the queue is as good as the queue.
LEMMA StretchOfQueue ==
    ASSUME NEW q \in Seq(Packets), NEW lg, NEW low, NEW high,
           NEW m \in 1..(Len(q) + 1), NEW n \in 0..Len(q),
           Faithful(q, lg), Ascending(q, low, high)
    PROVE  /\ Faithful(SubSeq(q, m, n), lg)
           /\ Ascending(SubSeq(q, m, n), low, high)
<1> DEFINE r == SubSeq(q, m, n)
<1>1. /\ Len(r) \in Nat
      /\ \A k \in 1..Len(r) : r[k] = q[m + k - 1] /\ m + k - 1 \in 1..Len(q)
  OBVIOUS
<1> HIDE DEF r
<1>2. Faithful(r, lg)
  BY <1>1 DEF Faithful
<1>3. Ascending(r, low, high)
  <2>1. \A j, k \in 1..Len(r) : j < k => m + j - 1 < m + k - 1
    OBVIOUS
  <2> QED BY <1>1, <2>1 DEF Ascending
<1> QED BY <1>2, <1>3 DEF r

\* Once the first ReceivedItems is taken, the others reach at least as far.
LEMMA TailOfQueue ==
    ASSUME NEW q \in Seq(Packets), NEW lg, NEW low, NEW high,
           q # <<>>, Faithful(q, lg), Ascending(q, low, high)
    PROVE  /\ Faithful(Tail(q), lg)
           /\ Ascending(Tail(q), low, high)
           /\ IsItems(Head(q)) => Ascending(Tail(q), Upto(Head(q)), high)
<1> DEFINE r == Tail(q)
<1>1. /\ Len(r) = Len(q) - 1
      /\ Len(q) \in Nat \ {0}
      /\ Head(q) = q[1]
      /\ \A k \in 1..Len(r) : r[k] = q[k + 1] /\ k + 1 \in 1..Len(q)
  OBVIOUS
<1> HIDE DEF r
<1>2. Faithful(r, lg)
  BY <1>1 DEF Faithful
<1>3. \A j, k \in 1..Len(r) : j < k => j + 1 < k + 1
  BY <1>1
<1>4. Ascending(r, low, high)
  BY <1>1, <1>3 DEF Ascending
<1>5. ASSUME IsItems(Head(q)) PROVE Ascending(r, Upto(Head(q)), high)
  <2>1. ASSUME NEW k \in 1..Len(r), IsItems(r[k])
        PROVE  Upto(Head(q)) <= Upto(r[k])
    <3>1. 1 \in 1..Len(q) /\ 1 < k + 1
      BY <1>1
    <3> QED BY <1>1, <1>5, <2>1, <3>1 DEF Ascending
  <2> QED BY <1>4, <2>1 DEF Ascending
<1> QED BY <1>2, <1>4, <1>5 DEF r
-----------------------------------------------------------------------------
(* The inductive invariant.  InventoryIsPrefix alone is not inductive: it   *)
(* needs to know what the packets of the queue carry, that they end in      *)
(* ascending order between the tracker's index and the server's cursor, and *)
(* that a process that is down has left no queue behind.                    *)
Down == pc = "down" =>
           /\ link = "closed"
           /\ toClient = <<>>
           /\ next_index = 0

\* The queue ends with the end of a message.
WholeMessages == toClient # <<>> => toClient[Len(toClient)].end = "last"

IInv ==
    /\ TypeOK
    /\ InMessage
    /\ WholeMessages
    /\ Down
    /\ InventoryIsPrefix
    /\ next_index <= cursor
    /\ Faithful(toClient, log)
    /\ Ascending(toClient, next_index, cursor)

\* IInv holds before the first process is started.
LEMMA IInvInit == Init => IInv
BY TypeInit
DEF Init, IInv, InMessage, WholeMessages, Down, InventoryIsPrefix, Faithful, Ascending

\* The part of IInv that is about the items.
Pipeline ==
    /\ InventoryIsPrefix
    /\ next_index <= cursor
    /\ Faithful(toClient, log)
    /\ Ascending(toClient, next_index, cursor)

\* The empty queue, an unchanged one, and the queue behind a message.
LEMMA EmptyQueue ==
    ASSUME NEW lg, NEW low, NEW high
    PROVE  Faithful(<<>>, lg) /\ Ascending(<<>>, low, high)
BY DEF Faithful, Ascending

\* What is behind a discarded message is a stretch of the queue.
LEMMA DiscardedQueue ==
    ASSUME TypeOK, Pipeline, DiscardMessage, UNCHANGED <<log, cursor, tracker>>
    PROVE  Pipeline'
<1>1. PICK k \in 1..Len(toClient) :
         toClient' = SubSeq(toClient, k + 1, Len(toClient))
  BY DEF DiscardMessage
<1>2. toClient \in Seq(Packets) /\ Len(toClient) \in Nat
  BY DEF TypeOK
<1>3. k + 1 \in 1..(Len(toClient) + 1) /\ Len(toClient) \in 0..Len(toClient)
  BY <1>2
<1>4. /\ Faithful(toClient', log)
      /\ Ascending(toClient', next_index, cursor)
  BY <1>1, <1>2, <1>3, StretchOfQueue DEF Pipeline
<1> QED BY <1>4 DEF Pipeline, InventoryIsPrefix, tracker

\* A step that touches neither queue, log nor tracker keeps the pipeline.
LEMMA UnchangedPipeline ==
    ASSUME Pipeline, UNCHANGED <<log, cursor, tracker, toClient>>
    PROVE  Pipeline'
BY DEF Pipeline, InventoryIsPrefix, tracker

\* Taking a ReceivedItems packet that fits moves the tracker along the log.
LEMMA ReceiveItemsStep ==
    ASSUME TypeOK, Pipeline, ReceiveItems
    PROVE  /\ Pipeline'
           /\ next_index' >= next_index
<1> DEFINE p == Head(toClient)
<1>1. /\ toClient \in Seq(Packets) /\ toClient # <<>>
      /\ p \in Packets /\ IsItems(p) /\ p = toClient[1]
      /\ 1 \in 1..Len(toClient)
  BY DEF ReceiveItems, Reading, IsItems, TypeOK
<1>2. /\ p.index \in Nat /\ p.items \in Seq(Items)
      /\ Len(p.items) \in Nat /\ Upto(p) \in Nat
  BY <1>1, UptoType
<1>3. /\ Quotes(p, log)
      /\ next_index <= Upto(p) /\ Upto(p) <= cursor
  BY <1>1 DEF Pipeline, Faithful, Ascending
<1>4. next_index' = Upto(p)
  BY DEF ReceiveItems, Upto
<1>5. InventoryIsPrefix'
  <2>1. log' = log
    BY DEF ReceiveItems, server
  <2>2. CASE p.index = 0
    <3>1. inventory' = p.items /\ next_index' = Len(p.items)
      BY <1>2, <2>2 DEF Rebuilt, ReceiveItems
    <3>2. \A n \in 1..Len(p.items) : p.items[n] = log[n]
      BY <1>2, <1>3, <2>2 DEF Quotes
    <3> QED BY <1>3, <1>4, <2>1, <3>1, <3>2 DEF InventoryIsPrefix, Quotes
  <2>3. CASE p.index = next_index /\ p.index # 0
    <3>1. inventory' = inventory \o p.items
      BY <2>3 DEF Rebuilt, ReceiveItems
    <3>2. /\ inventory \in Seq(Items) /\ Len(inventory) = next_index
          /\ \A n \in 1..next_index : inventory[n] = log[n]
          /\ next_index \in Nat
      BY DEF Pipeline, InventoryIsPrefix, TypeOK
    <3>3. /\ Len(inventory') = next_index + Len(p.items)
          /\ \A n \in 1..next_index : inventory'[n] = inventory[n]
          /\ \A n \in (next_index + 1)..(next_index + Len(p.items)) :
                inventory'[n] = p.items[n - next_index]
      <4> DEFINE both == inventory \o p.items
      <4>1. /\ Len(both) = Len(inventory) + Len(p.items)
            /\ \A n \in 1..(Len(inventory) + Len(p.items)) :
                  both[n] = IF n <= Len(inventory) THEN inventory[n]
                            ELSE p.items[n - Len(inventory)]
        BY <1>2, <3>2, ConcatProperties
      <4> HIDE DEF both
      <4>2. \A n \in 1..next_index : both[n] = inventory[n]
        BY <1>2, <3>2, <4>1
      <4>3. \A n \in (next_index + 1)..(next_index + Len(p.items)) :
               both[n] = p.items[n - next_index]
        BY <1>2, <3>2, <4>1
      <4>4. Len(both) = next_index + Len(p.items)
        BY <3>2, <4>1
      <4> QED BY <3>1, <4>2, <4>3, <4>4 DEF both
    <3>4. \A n \in (next_index + 1)..(next_index + Len(p.items)) :
             p.items[n - next_index] = log[n]
      <4>1. SUFFICES ASSUME NEW n \in (next_index + 1)
                                        ..(next_index + Len(p.items))
                     PROVE  p.items[n - next_index] = log[n]
        OBVIOUS
      <4>2. n - next_index \in 1..Len(p.items)
        BY <1>2, <3>2
      <4>3. next_index + (n - next_index) = n
        BY <3>2
      <4> QED BY <1>3, <2>3, <4>2, <4>3 DEF Quotes
    <3>5. next_index' = next_index + Len(p.items)
      BY <2>3 DEF ReceiveItems
    <3>6. \A n \in 1..next_index' : inventory'[n] = log[n]
      BY <1>2, <3>2, <3>3, <3>4, <3>5
    <3> QED BY <1>3, <1>4, <2>1, <3>3, <3>5, <3>6 DEF InventoryIsPrefix, Quotes
  <2> QED BY <2>2, <2>3 DEF Fits, ReceiveItems
<1>6. /\ Faithful(Tail(toClient), log)
      /\ Ascending(Tail(toClient), Upto(p), cursor)
  BY <1>1, TailOfQueue DEF Pipeline
<1>7. toClient' = Tail(toClient) /\ log' = log /\ cursor' = cursor
  BY DEF ReceiveItems, server
<1> QED
  BY <1>2, <1>3, <1>4, <1>5, <1>6, <1>7 DEF Pipeline, TypeOK

\* What the server adds continues where the queue ends.
LEMMA ServerStep ==
    ASSUME TypeOK, Pipeline, Server
    PROVE  Pipeline'
<1>1. /\ toClient \in Seq(Packets)
      /\ log \in Seq(Items) /\ Len(log) \in Nat
      /\ cursor \in Nat /\ cursor <= Len(log)
      /\ next_index \in Nat /\ next_index <= cursor
      /\ 0 \in 0..Len(log) /\ Len(log) \in 0..Len(log)
  BY DEF TypeOK, Pipeline
<1>2. Faithful(toClient, log) /\ Ascending(toClient, next_index, cursor)
  BY DEF Pipeline
<1>3. ASSUME NEW f \in 0..Len(log), NEW t \in 0..Len(log), f <= t,
             NEW m \in {"more", "last"}
      PROVE  /\ Received(f, t, m) \in Packets
             /\ Upto(Received(f, t, m)) = t
             /\ Quotes(Received(f, t, m), log)
  <2>1. Received(f, t, m) \in Packets
    BY <1>3, PacketTypes
  <2>2. /\ Len(SubSeq(log, f + 1, t)) = t - f
        /\ \A n \in 1..(t - f) : SubSeq(log, f + 1, t)[n] = log[f + n]
    BY <1>1, <1>3
  <2>3. f + (t - f) = t /\ t <= Len(log)
    BY <1>1, <1>3
  <2> QED BY <2>1, <2>2, <2>3 DEF Received, Upto, Quotes
<1>4. ASSUME NEW cmd \in {"Connected", "RoomUpdate"}, NEW S \in SUBSET Locations,
             NEW m \in {"more", "last"}
      PROVE  /\ ServerPacket(cmd, S, m) \in Packets
             /\ ~IsItems(ServerPacket(cmd, S, m))
  BY PacketTypes DEF ServerPacket, IsItems
<1>5. CASE AcceptConnect
  <2> DEFINE q(m) == Append(toClient, ServerPacket("Connected", checked, m))
  <2>1. PICK m \in {"more", "last"} :
           toClient' = IF log = <<>> THEN q(m)
                       ELSE Append(q(m), Received(0, Len(log), "last"))
    BY <1>5 DEF AcceptConnect
  <2>2. cursor' = Len(log) /\ log' = log /\ UNCHANGED tracker
    BY <1>5 DEF AcceptConnect, client
  <2>3. checked \in SUBSET Locations
    BY DEF TypeOK
  <2>4. /\ q(m) \in Seq(Packets)
        /\ Faithful(q(m), log)
        /\ Ascending(q(m), next_index, Len(log))
    BY <1>1, <1>2, <1>4, <2>3, AppendPacket
  <2>5. LET r == Append(q(m), Received(0, Len(log), "last"))
        IN  Faithful(r, log) /\ Ascending(r, next_index, Len(log))
    <3>1. next_index <= Len(log)
      BY <1>1
    <3> HIDE DEF q
    <3> QED BY <1>1, <1>3, <2>4, <3>1, AppendPacket
  <2>6. Faithful(toClient', log) /\ Ascending(toClient', next_index, Len(log))
    BY <2>1, <2>4, <2>5
  <2> QED BY <1>1, <2>2, <2>6 DEF Pipeline, InventoryIsPrefix, tracker
<1>6. CASE AnswerSync
  <2>1. CASE link = "joined"
    <3>1. /\ toClient' = Append(toClient, Received(0, Len(log), "last"))
          /\ cursor' = Len(log) /\ log' = log /\ UNCHANGED tracker
      BY <1>6, <2>1 DEF AnswerSync, client
    <3>2. next_index <= Len(log)
      BY <1>1
    <3>3. /\ Faithful(toClient', log)
          /\ Ascending(toClient', next_index, Len(log))
      BY <1>1, <1>2, <1>3, <3>1, <3>2, AppendPacket
    <3> QED BY <1>1, <3>1, <3>3 DEF Pipeline, InventoryIsPrefix, tracker
  <2>2. CASE link # "joined"
    <3>1. UNCHANGED <<log, cursor, tracker, toClient>>
      BY <1>6, <2>2 DEF AnswerSync, client
    <3> QED BY <3>1, UnchangedPipeline
  <2> QED BY <2>1, <2>2
<1>7. CASE RegisterChecks
  <2>1. UNCHANGED <<log, cursor, tracker>>
    BY <1>7 DEF RegisterChecks, client
  <2>2. CASE toClient' = toClient
    BY <2>1, <2>2, UnchangedPipeline
  <2>3. CASE toClient' = Append(toClient,
                                ServerPacket("RoomUpdate", checked', "last"))
    <3>1. checked' \in SUBSET Locations
      <4>1. Head(toServer) \in Requests
        BY <1>7 DEF RegisterChecks, TypeOK
      <4> QED BY <1>7, <4>1 DEF RegisterChecks, Requests, TypeOK
    <3>2. /\ Faithful(toClient', log)
          /\ Ascending(toClient', next_index, cursor)
      BY <1>1, <1>2, <1>4, <2>3, <3>1, AppendPacket
    <3> QED BY <2>1, <3>2 DEF Pipeline, InventoryIsPrefix, tracker
  <2> QED BY <1>7, <2>2, <2>3 DEF RegisterChecks
<1>8. CASE SendNewItems
  <2>1. cursor < Len(log) /\ cursor' = Len(log) /\ log' = log
        /\ UNCHANGED tracker
    BY <1>8 DEF SendNewItems, client
  <2>2. CASE toClient' = Append(toClient, Received(cursor, Len(log), "last"))
    <3>1. /\ Faithful(toClient', log)
          /\ Ascending(toClient', next_index, Len(log))
      BY <1>1, <1>2, <1>3, <2>1, <2>2, AppendPacket
    <3> QED BY <1>1, <2>1, <3>1 DEF Pipeline, InventoryIsPrefix, tracker
  <2>3. ASSUME NEW k \in (cursor + 1)..(Len(log) - 1),
               toClient' = Append(Append(toClient, Received(cursor, k, "more")),
                                  Received(k, Len(log), "last"))
        PROVE  Pipeline'
    <3> DEFINE q == Append(toClient, Received(cursor, k, "more"))
    <3>1. k \in 0..Len(log) /\ cursor <= k /\ k <= Len(log) /\ next_index <= k
          /\ k \in Nat /\ cursor \in 0..Len(log)
      BY <1>1
    <3>2. /\ q \in Seq(Packets)
          /\ Faithful(q, log)
          /\ Ascending(q, next_index, k)
      BY <1>1, <1>2, <1>3, <3>1, AppendPacket
    <3> HIDE DEF q
    <3>3. LET r == Append(q, Received(k, Len(log), "last"))
          IN  Faithful(r, log) /\ Ascending(r, next_index, Len(log))
      <4> DEFINE p == Received(k, Len(log), "last")
      <4>1. /\ p \in Packets /\ Upto(p) = Len(log) /\ Quotes(p, log)
            /\ next_index <= Len(log)
        BY <1>1, <1>3, <3>1
      <4> HIDE DEF p
      <4>2. Faithful(Append(q, p), log)
            /\ Ascending(Append(q, p), next_index, Len(log))
        BY <1>1, <3>1, <3>2, <4>1, AppendPacket
      <4> QED BY <4>2 DEF p
    <3>4. toClient' = Append(q, Received(k, Len(log), "last"))
      BY <2>3 DEF q
    <3> QED BY <1>1, <2>1, <3>3, <3>4 DEF Pipeline, InventoryIsPrefix, tracker
  <2> QED BY <1>8, <2>2, <2>3 DEF SendNewItems
<1> QED BY <1>5, <1>6, <1>7, <1>8 DEF Server

\* The rest of IInv, step by step.
LEMMA PipelineStep ==
    ASSUME IInv, [Next]_vars
    PROVE  Pipeline'
<1> USE DEF IInv
<1>1. Pipeline
  BY DEF Pipeline
<1>2. CASE Start
  <2>1. next_index = 0 /\ toClient' = <<>> /\ cursor' = 0
        /\ UNCHANGED <<log, tracker>>
    BY <1>2 DEF Start, Down
  <2>2. next_index' = next_index /\ inventory' = inventory /\ log' = log
    BY <2>1 DEF tracker
  <2>4. InventoryIsPrefix'
    BY <1>1, <2>2 DEF Pipeline, InventoryIsPrefix
  <2>5. next_index' <= cursor'
    BY <2>1, <2>2
  <2>3. /\ Faithful(toClient', log')
        /\ Ascending(toClient', next_index', cursor')
    BY <2>1, EmptyQueue
  <2> QED BY <2>3, <2>4, <2>5 DEF Pipeline
<1>3. ASSUME Exit PROVE Pipeline'
  <2>1. /\ toClient' = <<>> /\ next_index' = 0 /\ inventory' = <<>>
        /\ UNCHANGED <<log, cursor>>
    BY <1>3 DEF Exit
  <2>2. cursor \in Nat /\ Len(log) \in Nat
    BY DEF TypeOK
  <2> QED BY <2>1, <2>2, EmptyQueue DEF Pipeline, InventoryIsPrefix
<1>4. CASE Connected
  BY <1>1, <1>4, DiscardedQueue DEF Connected, server
<1>5. CASE PollRaises
  BY <1>1, <1>5, DiscardedQueue DEF PollRaises, server
<1>6. CASE ReceiveItems
  BY <1>1, <1>6, ReceiveItemsStep
<1>7. ASSUME toClient # <<>>, toClient' = Tail(toClient),
             UNCHANGED <<log, cursor, tracker>>
      PROVE  Pipeline'
  <2>1. /\ Faithful(Tail(toClient), log)
        /\ Ascending(Tail(toClient), next_index, cursor)
    BY <1>1, <1>7, TailOfQueue DEF Pipeline, TypeOK
  <2> QED BY <1>1, <1>7, <2>1 DEF Pipeline, InventoryIsPrefix, tracker
<1>8. CASE ResendChecks
  BY <1>7, <1>8 DEF ResendChecks, InMessage, server
<1>9. CASE ReceiveRoomUpdate
  BY <1>7, <1>9 DEF ReceiveRoomUpdate, Reading, server
<1>10. CASE Server
  BY <1>1, <1>10, ServerStep
<1>11. CASE RefuseConnect
  <2> DEFINE p == ServerPacket("ConnectionRefused", {}, "last")
  <2>1. p \in Packets /\ ~IsItems(p)
    BY PacketTypes DEF ServerPacket, IsItems
  <2>2. toClient' = Append(toClient, p) /\ UNCHANGED <<log, cursor, tracker>>
    BY <1>11 DEF RefuseConnect, server, client
  <2>3. toClient \in Seq(Packets) /\ cursor \in Nat /\ next_index \in Nat
    BY DEF TypeOK
  <2> HIDE DEF p
  <2>4. Faithful(toClient', log) /\ Ascending(toClient', next_index, cursor)
    BY <2>1, <2>2, <2>3, AppendPacket
  <2> QED BY <1>1, <2>2, <2>4 DEF Pipeline, InventoryIsPrefix, tracker
<1>12. CASE Drop
  <2>1. PICK k \in 0..Len(toClient) : toClient' = SubSeq(toClient, 1, k)
    BY <1>12 DEF Drop
  <2>2. UNCHANGED <<log, cursor, tracker>>
    BY <1>12 DEF Drop, client
  <2>3. Faithful(toClient', log) /\ Ascending(toClient', next_index, cursor)
    <3>1. toClient \in Seq(Packets) /\ 1 \in 1..(Len(toClient) + 1)
      BY DEF TypeOK
    <3> QED BY <2>1, <3>1, StretchOfQueue
  <2> QED BY <1>1, <2>2, <2>3 DEF Pipeline, InventoryIsPrefix, tracker
<1>13. ASSUME NEW i \in Items, Grant(i) PROVE Pipeline'
  <2>1. /\ log' = Append(log, i)
        /\ UNCHANGED <<cursor, tracker, toClient>>
    BY <1>13 DEF Grant, network, client
  <2>2. /\ Len(log') = Len(log) + 1 /\ Len(log) \in Nat
        /\ \A n \in 1..Len(log) : log'[n] = log[n]
    BY <2>1 DEF TypeOK
  <2>3. InventoryIsPrefix'
    BY <1>1, <2>1, <2>2 DEF Pipeline, InventoryIsPrefix, tracker, TypeOK
  <2>4. ASSUME NEW k \in 1..Len(toClient), IsItems(toClient[k])
        PROVE  Quotes(toClient[k], log')
    <3> DEFINE p == toClient[k]
    <3>1. /\ p \in Packets /\ Quotes(p, log)
      BY <2>4 DEF Faithful, TypeOK
    <3>2. p.index \in Nat /\ Len(p.items) \in Nat
      BY <3>1, UptoType
    <3> HIDE DEF p
    <3>3. \A n \in 1..Len(p.items) : p.index + n \in 1..Len(log)
      BY <2>2, <3>1, <3>2 DEF Quotes, Upto
    <3>4. Upto(p) <= Len(log')
      BY <2>2, <3>1, <3>2 DEF Quotes, Upto
    <3>5. \A n \in 1..Len(p.items) : p.items[n] = log'[p.index + n]
      BY <2>2, <3>1, <3>3 DEF Quotes
    <3>6. Quotes(p, log')
      BY <3>4, <3>5 DEF Quotes
    <3> QED BY <3>6 DEF p
  <2>5. Faithful(toClient, log')
    BY <2>4 DEF Faithful
  <2> QED BY <1>1, <2>1, <2>3, <2>5 DEF Pipeline, tracker
<1>14. CASE UNCHANGED <<log, cursor, tracker, toClient>>
  BY <1>1, <1>14, UnchangedPipeline
<1>15. ASSUME NEW l \in Locations, Achieve(l) PROVE Pipeline'
  BY <1>14, <1>15 DEF Achieve, server, network, client
<1> QED
  BY <1>2, <1>3, <1>4, <1>5, <1>6, <1>8, <1>9, <1>10, <1>11, <1>12, <1>13,
     <1>14, <1>15
  DEF Next, Process, Environment, Refused, SendRaises, Stop, Prime,
      PollNothing, ReceiveGap, ApplyItem, ItemsApplied, PollChecks, SendChecks,
      vars, server, network

\* The queue always ends with the last packet of a message.
LEMMA WholeMessagesStep ==
    ASSUME IInv, [Next]_vars
    PROVE  WholeMessages'
<1> USE DEF IInv, WholeMessages
<1>1. toClient \in Seq(Packets) /\ Len(toClient) \in Nat
  BY DEF TypeOK
<1>2. CASE toClient' = <<>> \/ toClient' = toClient
  BY <1>2
<1>3. ASSUME toClient # <<>>, toClient' = Tail(toClient)
      PROVE  WholeMessages'
  <2>1. /\ Len(toClient') = Len(toClient) - 1
        /\ \A k \in 1..(Len(toClient) - 1) : toClient'[k] = toClient[k + 1]
        /\ toClient' \in Seq(Packets)
    BY <1>1, <1>3
  <2> QED BY <1>1, <1>3, <2>1
<1>4. ASSUME DiscardMessage PROVE WholeMessages'
  <2>1. PICK k \in 1..Len(toClient) :
           toClient' = SubSeq(toClient, k + 1, Len(toClient))
    BY <1>4 DEF DiscardMessage
  <2>2. /\ Len(toClient') = Len(toClient) - k
        /\ \A j \in 1..(Len(toClient) - k) : toClient'[j] = toClient[k + j]
        /\ toClient' \in Seq(Packets)
    BY <1>1, <2>1
  <2>3. CASE k = Len(toClient)
    BY <2>2, <2>3
  <2>4. CASE k < Len(toClient)
    <3>1. /\ Len(toClient) - k \in 1..(Len(toClient) - k)
          /\ k + (Len(toClient) - k) = Len(toClient)
          /\ toClient # <<>>
      BY <1>1, <2>4
    <3> QED BY <2>2, <3>1
  <2> QED BY <1>1, <2>3, <2>4
<1>5. ASSUME NEW q \in Seq(Packets), NEW p \in Packets, p.end = "last",
             toClient' = Append(q, p)
      PROVE  WholeMessages'
  BY <1>5
<1>6. CASE AcceptConnect
  <2> DEFINE q(m) == Append(toClient, ServerPacket("Connected", checked, m))
             r == Received(0, Len(log), "last")
  <2>1. PICK m \in {"more", "last"} :
           /\ m = "more" => log # <<>>
           /\ toClient' = IF log = <<>> THEN q(m) ELSE Append(q(m), r)
    BY <1>6 DEF AcceptConnect
  <2>2. checked \in SUBSET Locations
    BY DEF TypeOK
  <2>3. /\ ServerPacket("Connected", checked, m) \in Packets
        /\ ServerPacket("Connected", checked, m).end = m
    BY <2>2, PacketTypes DEF ServerPacket
  <2>4. r \in Packets /\ r.end = "last"
    <3>1. 0 \in 0..Len(log) /\ Len(log) \in 0..Len(log)
      BY DEF TypeOK
    <3> QED BY <3>1, PacketTypes DEF Received
  <2>5. q(m) \in Seq(Packets)
    BY <1>1, <2>3
  <2>6. CASE log = <<>>
    BY <1>1, <1>5, <2>1, <2>3, <2>6
  <2>7. CASE log # <<>>
    <3> HIDE DEF q, r
    <3> QED BY <1>5, <2>1, <2>4, <2>5, <2>7
  <2> QED BY <2>6, <2>7
<1>7. CASE AnswerSync
  <2> DEFINE r == Received(0, Len(log), "last")
  <2>1. r \in Packets /\ r.end = "last"
    <3>1. 0 \in 0..Len(log) /\ Len(log) \in 0..Len(log)
      BY DEF TypeOK
    <3> QED BY <3>1, PacketTypes DEF Received
  <2>2. toClient' = toClient \/ toClient' = Append(toClient, r)
    BY <1>7 DEF AnswerSync
  <2> HIDE DEF r
  <2> QED BY <1>1, <1>2, <1>5, <2>1, <2>2
<1>8. CASE RegisterChecks
  <2> DEFINE r == ServerPacket("RoomUpdate", checked', "last")
  <2>1. checked' \in SUBSET Locations
    BY TypeStep DEF TypeOK
  <2>2. r \in Packets /\ r.end = "last"
    BY <2>1, PacketTypes DEF ServerPacket
  <2>3. toClient' = toClient \/ toClient' = Append(toClient, r)
    BY <1>8 DEF RegisterChecks
  <2> HIDE DEF r
  <2> QED BY <1>1, <1>2, <1>5, <2>2, <2>3
<1>9. CASE SendNewItems
  <2>1. cursor \in 0..Len(log) /\ Len(log) \in 0..Len(log) /\ Len(log) \in Nat
    BY DEF TypeOK
  <2>2. ASSUME NEW f \in 0..Len(log), NEW q \in Seq(Packets),
               toClient' = Append(q, Received(f, Len(log), "last"))
        PROVE  WholeMessages'
    <3> DEFINE r == Received(f, Len(log), "last")
    <3>1. r \in Packets /\ r.end = "last"
      BY <2>1, PacketTypes DEF Received
    <3>2. toClient' = Append(q, r)
      BY <2>2
    <3> HIDE DEF r
    <3> QED BY <1>5, <3>1, <3>2
  <2>3. ASSUME NEW k \in (cursor + 1)..(Len(log) - 1),
               toClient' = Append(Append(toClient, Received(cursor, k, "more")),
                                  Received(k, Len(log), "last"))
        PROVE  WholeMessages'
    <3>1. k \in 0..Len(log)
      BY <2>1
    <3>2. Received(cursor, k, "more") \in Packets
      BY <2>1, <3>1, PacketTypes
    <3>3. Append(toClient, Received(cursor, k, "more")) \in Seq(Packets)
      BY <1>1, <3>2
    <3> QED BY <2>2, <2>3, <3>1, <3>3
  <2> QED BY <1>1, <1>9, <2>1, <2>2, <2>3 DEF SendNewItems
<1>10. CASE RefuseConnect
  <2> DEFINE r == ServerPacket("ConnectionRefused", {}, "last")
  <2>1. r \in Packets /\ r.end = "last"
    BY PacketTypes DEF ServerPacket
  <2>2. toClient' = Append(toClient, r)
    BY <1>10 DEF RefuseConnect
  <2> HIDE DEF r
  <2> QED BY <1>1, <1>5, <2>1, <2>2
<1>11. CASE Drop
  <2>1. PICK k \in 0..Len(toClient) :
           /\ k > 0 => toClient[k].end = "last"
           /\ toClient' = SubSeq(toClient, 1, k)
    BY <1>11 DEF Drop
  <2>2. Len(toClient') = k /\ \A j \in 1..k : toClient'[j] = toClient[j]
    BY <1>1, <2>1
  <2>3. toClient' # <<>> => k > 0
    BY <2>1, <2>2
  <2> QED BY <2>1, <2>2, <2>3
<1> QED
  BY <1>2, <1>3, <1>4, <1>6, <1>7, <1>8, <1>9, <1>10, <1>11
  DEF Next, Process, Server, Environment, Refused, SendRaises, Stop, Prime,
      PollNothing, ReceiveGap, ApplyItem, ItemsApplied, PollChecks, SendChecks,
      Start, Exit, Connected, PollRaises, ReceiveItems, ResendChecks,
      ReceiveRoomUpdate, InMessage, Reading, Grant, Achieve, vars, network

\* Append makes a sequence that is not empty.
LEMMA AppendNotEmpty ==
    ASSUME NEW S, NEW q \in Seq(S), NEW p
    PROVE  Append(q, p) \in Seq(S \cup {p}) /\ Append(q, p) # <<>>
<1>1. q \in Seq(S \cup {p})
  BY SeqMonotonic
<1>2. p \in S \cup {p}
  OBVIOUS
<1> QED BY <1>1, <1>2, AppendProperties

\* poll() is inside a message only while packets of it are left.
LEMMA InMessageStep ==
    ASSUME IInv, [Next]_vars
    PROVE  InMessage'
<1> USE DEF IInv, InMessage, WholeMessages
<1>1. toClient \in Seq(Packets) /\ Len(toClient) \in Nat
  BY DEF TypeOK
<1>2. ASSUME toClient # <<>>, toClient' = Tail(toClient),
             pc' = AfterPacket(Head(toClient))
      PROVE  InMessage'
  <2>1. CASE Head(toClient).end = "more"
    <3>1. Head(toClient) = toClient[1] /\ Len(toClient) # 0
      BY <1>1, <1>2
    <3>2. Len(toClient) # 1
      BY <1>2, <2>1, <3>1
    <3>3. Len(Tail(toClient)) = Len(toClient) - 1
      BY <1>1, <1>2
    <3>4. Len(toClient') # 0
      BY <1>1, <1>2, <3>1, <3>2, <3>3
    <3> QED BY <3>4
  <2>2. CASE Head(toClient).end # "more"
    BY <1>2, <2>2 DEF AfterPacket
  <2> QED BY <2>1, <2>2
<1>3. ASSUME pc' \notin {"batch", "resend"} PROVE InMessage'
  BY <1>3
<1>4. ASSUME pc' = pc, toClient # <<>> => toClient' # <<>> PROVE InMessage'
  BY <1>4
<1>5. CASE ReceiveGap
  BY <1>5 DEF ReceiveGap, Gap, Reading
<1>6. CASE AcceptConnect \/ AnswerSync \/ RegisterChecks \/ SendNewItems
           \/ RefuseConnect
  <2>1. pc' = pc
    BY <1>6 DEF AcceptConnect, AnswerSync, RegisterChecks, SendNewItems,
                RefuseConnect, client
  <2>3. toClient # <<>> => toClient' # <<>>
    <3>1. CASE toClient' = toClient
      BY <3>1
    <3>2. ASSUME NEW p, toClient' = Append(toClient, p)
          PROVE  toClient' # <<>>
      BY <1>1, <3>2, AppendNotEmpty
    <3>3. ASSUME NEW p, NEW r, toClient' = Append(Append(toClient, p), r)
          PROVE  toClient' # <<>>
      <4>1. Append(toClient, p) \in Seq(Packets \cup {p})
        BY <1>1, AppendNotEmpty
      <4> QED BY <3>3, <4>1, AppendNotEmpty
    <3> QED BY <1>6, <3>1, <3>2, <3>3
            DEF AcceptConnect, AnswerSync, RegisterChecks, SendNewItems,
                RefuseConnect
  <2> QED BY <1>4, <2>1, <2>3
<1>7. CASE Drop
  <2>1. PICK k \in 0..Len(toClient) :
           /\ k = 0 => pc \notin {"batch", "resend"}
           /\ toClient' = SubSeq(toClient, 1, k)
    BY <1>7 DEF Drop
  <2>2. Len(toClient') = k
    BY <1>1, <2>1
  <2>3. pc' = pc
    BY <1>7 DEF Drop, client
  <2> QED BY <2>1, <2>2, <2>3
<1>8. CASE UNCHANGED <<pc, toClient>>
  BY <1>4, <1>8
<1> QED
  BY <1>2, <1>3, <1>5, <1>6, <1>7, <1>8
  DEF Next, Process, Server, Environment, Refused, SendRaises, Stop, Prime,
      PollNothing, ApplyItem, ItemsApplied, PollChecks, SendChecks,
      Start, Exit, Connected, PollRaises, ReceiveItems, ResendChecks,
      ReceiveRoomUpdate, Reading, Grant, Achieve, vars, network, client

\* A process that is down has an empty tracker and queue.
LEMMA DownStep ==
    ASSUME IInv, [Next]_vars
    PROVE  Down'
<1> USE DEF IInv, Down
<1>1. CASE pc' # "down"
  BY <1>1
<1>2. CASE Exit
  BY <1>2 DEF Exit
<1>3. CASE UNCHANGED <<pc, link, toClient, next_index>>
  BY <1>3
<1>4. CASE RegisterChecks \/ AnswerSync
  <2>1. pc' = pc /\ link' = link /\ next_index' = next_index
    BY <1>4 DEF RegisterChecks, AnswerSync, client, tracker
  <2>2. link # "joined" => toClient' = toClient
    BY <1>4 DEF RegisterChecks, AnswerSync
  <2> QED BY <2>1, <2>2
<1>5. CASE SendNewItems \/ AcceptConnect \/ RefuseConnect \/ Drop
  <2>1. pc' = pc /\ link # "closed"
    BY <1>5 DEF SendNewItems, AcceptConnect, RefuseConnect, Drop, client
  <2> QED BY <2>1
<1>6. CASE ReceiveItems \/ ReceiveRoomUpdate \/ ResendChecks
  BY <1>6 DEF ReceiveItems, ReceiveRoomUpdate, ResendChecks, AfterPacket
<1>7. CASE Start \/ Connected \/ Prime \/ PollNothing \/ ReceiveGap
           \/ PollRaises \/ ItemsApplied \/ PollChecks \/ SendChecks
  BY <1>7 DEF Start, Connected, Prime, PollNothing, ReceiveGap, PollRaises,
              ItemsApplied, PollChecks, SendChecks
<1> QED
  BY <1>2, <1>3, <1>4, <1>5, <1>6, <1>7
  DEF Next, Process, Server, Environment, Refused, SendRaises, Stop,
      ApplyItem, Grant, Achieve, vars, network, client, tracker

\* Every step keeps IInv.
LEMMA IInvStep == IInv /\ [Next]_vars => IInv'
BY TypeStep, InMessageStep, WholeMessagesStep, DownStep, PipelineStep
DEF IInv, Pipeline

(* Whatever the network loses, splits or repeats, the inventory of the      *)
(* tracker is a beginning of the sequence of items the server has sent.     *)
THEOREM InventoryPrefixTheorem == Spec => [](TypeOK /\ InventoryIsPrefix)
<1>1. Init => IInv
  BY IInvInit
<1>2. IInv /\ [Next]_vars => IInv'
  BY IInvStep
<1>3. IInv => TypeOK /\ InventoryIsPrefix
  BY DEF IInv
<1> QED BY <1>1, <1>2, <1>3, PTL DEF Spec

\* A step of the tracker is a Learn step.
LEMMA ReceiveItemsLearns ==
    ASSUME IInv, ReceiveItems
    PROVE  Delivery!Learn
<1>1. InventoryIsPrefix' /\ next_index' >= next_index
  BY ReceiveItemsStep DEF IInv, Pipeline
<1>2. /\ log' = log /\ pc # "down" /\ pc' # "down"
      /\ inventory' \in Seq(Items)
      /\ next_index = Len(inventory)
  <2>1. Head(toClient) \in Packets
    BY DEF ReceiveItems, Reading, IInv, TypeOK
  <2>2. Head(toClient).items \in Seq(Items)
    BY <2>1 DEF Packets
  <2> QED
    BY <2>2 DEF Rebuilt, ReceiveItems, Reading, AfterPacket, server, IInv, TypeOK,
                InventoryIsPrefix
<1>3. /\ next_index' = Len(inventory')
      /\ next_index' <= Len(log)
      /\ \A k \in 1..next_index' : inventory'[k] = log[k]
  BY <1>1, <1>2 DEF InventoryIsPrefix
<1>4. log \in Seq(Items) /\ Len(log) \in Nat /\ Len(inventory') \in Nat
      /\ Len(inventory) \in Nat
  BY <1>2 DEF IInv, TypeOK
<1>5. inventory' = SubSeq(log, 1, next_index')
  <2>1. /\ SubSeq(log, 1, next_index') \in Seq(Items)
        /\ Len(SubSeq(log, 1, next_index')) = next_index'
        /\ \A k \in 1..next_index' : SubSeq(log, 1, next_index')[k] = log[k]
    BY <1>3, <1>4
  <2> QED BY <1>2, <1>3, <2>1, SeqEqual
<1>6. next_index' \in Len(inventory)..Len(log)
  BY <1>1, <1>2, <1>3, <1>4
<1> QED BY <1>2, <1>5, <1>6 DEF Delivery!Learn

(* The client implements ItemDelivery: within a process the inventory only  *)
(* grows along the server's log, and it is given up only with the process.  *)
THEOREM RunnerImplementsDelivery == Spec => DeliverySpec
<1>1. Init => Delivery!Init
  BY DEF Init, Delivery!Init
<1>2. IInv /\ [Next]_vars => [Delivery!Next]_(Delivery!vars)
  <2> SUFFICES ASSUME IInv, [Next]_vars
               PROVE  Delivery!Next \/ UNCHANGED Delivery!vars
    OBVIOUS
  <2>1. CASE Start
    BY <2>1 DEF Start, tracker, Delivery!Next, Delivery!Begin
  <2>2. ASSUME pc # "down", Exit PROVE Delivery!Next
    BY <2>2 DEF Exit, Delivery!Next, Delivery!End
  <2>3. CASE ReceiveItems
    BY <2>3, ReceiveItemsLearns DEF Delivery!Next
  <2>4. ASSUME NEW i \in Items, Grant(i) PROVE Delivery!Next
    BY <2>4 DEF Grant, client, tracker, Delivery!Next, Delivery!Grant
  <2>5. ASSUME UNCHANGED <<log, inventory>>, (pc' # "down") = (pc # "down")
        PROVE  UNCHANGED Delivery!vars
    BY <2>5 DEF Delivery!vars
  <2>6. CASE Connected \/ Prime \/ PollNothing \/ ReceiveGap \/ PollRaises
             \/ ItemsApplied \/ PollChecks \/ SendChecks \/ ApplyItem
    BY <2>5, <2>6
    DEF Connected, Prime, PollNothing, ReceiveGap, PollRaises, ItemsApplied,
        PollChecks, SendChecks, ApplyItem, Reading, Gap, server, tracker
  <2>7. CASE ReceiveRoomUpdate \/ ResendChecks
    BY <2>5, <2>7
    DEF ReceiveRoomUpdate, ResendChecks, Reading, AfterPacket, server, tracker
  <2>8. CASE Server \/ RefuseConnect \/ Drop
    BY <2>5, <2>8
    DEF Server, AcceptConnect, AnswerSync, RegisterChecks, SendNewItems,
        RefuseConnect, Drop, client, tracker, server
  <2>9. CASE (\E l \in Locations : Achieve(l)) \/ UNCHANGED vars
    BY <2>5, <2>9 DEF Achieve, vars, server, client, tracker
  <2> QED
    BY <2>1, <2>2, <2>3, <2>4, <2>6, <2>7, <2>8, <2>9
    DEF Next, Process, Environment, Refused, SendRaises, Stop
<1> QED
  BY <1>1, <1>2, IInvInit, IInvStep, PTL DEF Spec, DeliverySpec, Delivery!Spec
-----------------------------------------------------------------------------
(* Checks on their way.  A check leaves one place only when it is in the    *)
(* next; the invariant adds that nothing is held in check_ids except while  *)
(* it is being sent, since PollChecks overwrites it, and that the baseline  *)
(* has nothing that is still to be achieved.                                *)
Carried(q) == UNION {r.locations : r \in Range(q)}
HeldOnlyToSend == pc # "send" => check_ids = {}
SeenWasDone == seen \subseteq done
ChecksInv == HeldOnlyToSend /\ SeenWasDone /\ SessionChecksAccounted

\* What a queue carries that one request joins.
LEMMA CarriedAppend ==
    ASSUME NEW q \in Seq(Requests), NEW r \in Requests
    PROVE  Carried(Append(q, r)) = Carried(q) \cup r.locations
<1> DEFINE a == Append(q, r)
<1>1. /\ DOMAIN a = 1..(Len(q) + 1)
      /\ DOMAIN q = 1..Len(q)
      /\ Len(q) \in Nat
      /\ a[Len(q) + 1] = r
      /\ \A k \in 1..Len(q) : a[k] = q[k]
  OBVIOUS
<1>2. Range(a) = Range(q) \cup {r}
  BY <1>1 DEF Range
<1> QED BY <1>2 DEF Carried

\* What a queue carries is carried by its head and by the rest.
LEMMA CarriedTail ==
    ASSUME NEW q \in Seq(Requests), q # <<>>
    PROVE  Carried(q) \subseteq Carried(Tail(q)) \cup Head(q).locations
<1>1. /\ DOMAIN q = 1..Len(q) /\ Len(q) \in Nat \ {0}
      /\ DOMAIN Tail(q) = 1..(Len(q) - 1)
      /\ Head(q) = q[1]
      /\ \A k \in 1..(Len(q) - 1) : Tail(q)[k] = q[k + 1]
  OBVIOUS
<1>2. ASSUME NEW k \in 1..Len(q), k # 1 PROVE q[k] \in Range(Tail(q))
  <2>1. k - 1 \in 1..(Len(q) - 1) /\ Tail(q)[k - 1] = q[k]
    BY <1>1, <1>2
  <2> QED BY <1>1, <2>1 DEF Range
<1>3. Range(q) \subseteq Range(Tail(q)) \cup {Head(q)}
  BY <1>1, <1>2 DEF Range
<1> QED BY <1>3 DEF Carried

\* Steps that leave the places a check can be in, or only give to them.
LEMMA ChecksStay ==
    ASSUME ChecksInv, check_ids' = check_ids, seen' = seen, primed' = primed,
           done' = done, Healthy' => Healthy,
           pc # "send" => pc' # "send", pc' # "send" => pc # "send",
           checked \cup InFlight \subseteq checked' \cup InFlight'
    PROVE  ChecksInv'
BY DEF ChecksInv, HeldOnlyToSend, SeenWasDone, SessionChecksAccounted

\* Every step keeps ChecksInv.
LEMMA ChecksStep == IInv /\ ChecksInv /\ [Next]_vars => ChecksInv'
<1> SUFFICES ASSUME IInv, ChecksInv, [Next]_vars PROVE ChecksInv'
  OBVIOUS
<1> USE DEF server, network, tracker, applier, checks, client
<1>0. toServer \in Seq(Requests) /\ InFlight = Carried(toServer)
      /\ InFlight' = Carried(toServer')
  BY DEF IInv, TypeOK, InFlight, Carried
<1>1. CASE Stop \/ Refused \/ SendRaises
  BY <1>1
  DEF Stop, Refused, SendRaises, Exit, ChecksInv, HeldOnlyToSend, SeenWasDone,
      SessionChecksAccounted, Healthy, InSession
<1>2. CASE Start \/ Connected
  BY <1>2
  DEF Start, Connected, ChecksInv, HeldOnlyToSend, SeenWasDone, SessionChecksAccounted,
      Healthy, InSession
<1>3. CASE Prime
  BY <1>3 DEF Prime, ChecksInv, HeldOnlyToSend, SeenWasDone, SessionChecksAccounted
<1>4. CASE PollNothing \/ ReceiveItems \/ ReceiveRoomUpdate \/ PollRaises
           \/ ApplyItem \/ ItemsApplied
  <2>1. toServer' = toServer /\ checked' = checked /\ pc \notin {"send", "down"}
        /\ pc' # "send" /\ InSession
    BY <1>4
    DEF PollNothing, ReceiveItems, ReceiveRoomUpdate, PollRaises, ApplyItem,
        ItemsApplied, Reading, Gap, AfterPacket, InSession
  <2>2. check_ids' = check_ids /\ seen' = seen /\ primed' = primed /\ done' = done
        /\ link' = link
    BY <1>4
    DEF PollNothing, ReceiveItems, ReceiveRoomUpdate, PollRaises, ApplyItem,
        ItemsApplied
  <2> QED BY <1>0, <2>1, <2>2, ChecksStay DEF Healthy
<1>5. CASE ReceiveGap
  <2>1. Carried(toServer') = Carried(toServer) \cup Sync.locations
    BY <1>0, <1>5, PacketTypes, CarriedAppend DEF ReceiveGap, Asked, IInv
  <2>2. check_ids' = check_ids /\ seen' = seen /\ primed' = primed /\ done' = done
        /\ link' = link /\ checked' = checked /\ pc' = "resend"
        /\ pc \in {"poll", "batch"}
    BY <1>5 DEF ReceiveGap, Gap, Reading
  <2> QED BY <1>0, <2>1, <2>2, ChecksStay DEF Healthy, InSession
<1>6. CASE ResendChecks
  <2>1. Carried(toServer) \subseteq Carried(toServer')
    <3>1. LocationChecks(sent_checks) \in Requests
      BY PacketTypes DEF IInv, TypeOK
    <3> QED BY <1>0, <1>6, <3>1, CarriedAppend DEF ResendChecks
  <2>2. check_ids' = check_ids /\ seen' = seen /\ primed' = primed /\ done' = done
        /\ link' = link /\ checked' = checked /\ pc' \in {"batch", "apply"}
        /\ pc = "resend"
    BY <1>6 DEF ResendChecks, AfterPacket
  <2> QED BY <1>0, <2>1, <2>2, ChecksStay DEF Healthy, InSession
<1>7. CASE PollChecks
  BY <1>0, <1>7
  DEF PollChecks, Detected, ChecksInv, HeldOnlyToSend, SeenWasDone,
      SessionChecksAccounted, Healthy, InSession
<1>8. CASE SendChecks
  <2>1. Carried(toServer') = Carried(toServer) \cup check_ids
    <3>1. LocationChecks(check_ids) \in Requests
      BY PacketTypes DEF IInv, TypeOK
    <3> QED BY <1>0, <1>8, <3>1, CarriedAppend DEF SendChecks, LocationChecks
  <2> QED
    BY <1>0, <1>8, <2>1
    DEF SendChecks, ChecksInv, HeldOnlyToSend, SeenWasDone, SessionChecksAccounted,
        Healthy, InSession
<1>9. CASE \E l \in Locations : Achieve(l)
  BY <1>0, <1>9
  DEF Achieve, ChecksInv, HeldOnlyToSend, SeenWasDone, SessionChecksAccounted,
      Healthy, InSession
<1>10. CASE (\E i \in Items : Grant(i)) \/ SendNewItems
  BY <1>0, <1>10, ChecksStay DEF Grant, SendNewItems, Healthy, InSession
<1>11. CASE AcceptConnect \/ RefuseConnect \/ AnswerSync
  <2>1. Carried(toServer) \subseteq Carried(toServer')
    <3>1. /\ toServer # <<>> /\ toServer' = Tail(toServer)
          /\ Head(toServer) \in {Connect, Sync}
      BY <1>11 DEF AcceptConnect, RefuseConnect, AnswerSync
    <3>2. Head(toServer).locations = {}
      BY <3>1 DEF Connect, Sync
    <3> QED BY <1>0, <3>1, <3>2, CarriedTail
  <2>2. check_ids' = check_ids /\ seen' = seen /\ primed' = primed /\ done' = done
        /\ checked' = checked /\ pc' = pc /\ (link' # "closed" => link # "closed")
    BY <1>11 DEF AcceptConnect, RefuseConnect, AnswerSync
  <2> QED BY <1>0, <2>1, <2>2, ChecksStay DEF Healthy, InSession
<1>12. CASE RegisterChecks
  <2>1. checked \cup Carried(toServer) \subseteq checked' \cup Carried(toServer')
    BY <1>0, <1>12, CarriedTail DEF RegisterChecks
  <2>2. check_ids' = check_ids /\ seen' = seen /\ primed' = primed /\ done' = done
        /\ pc' = pc /\ link' = link
    BY <1>12 DEF RegisterChecks
  <2> QED BY <1>0, <2>1, <2>2, ChecksStay DEF Healthy, InSession
<1>13. CASE Drop
  BY <1>13
  DEF Drop, ChecksInv, HeldOnlyToSend, SeenWasDone, SessionChecksAccounted,
      Healthy, InSession
<1>14. CASE UNCHANGED vars
  BY <1>0, <1>14, ChecksStay DEF vars, Healthy, InSession
<1> QED
  BY <1>1, <1>2, <1>3, <1>4, <1>5, <1>6, <1>7, <1>8, <1>9, <1>10, <1>11, <1>12,
     <1>13, <1>14
  DEF Next, Process, Server, Environment

(* While the link is up, every check achieved in this session is known to   *)
(* the server, in flight, about to be sent, or still to be detected: over   *)
(* gaps, Syncs and resends no poll loses one.                               *)
THEOREM ChecksAccountedTheorem == Spec => []SessionChecksAccounted
<1>1. Init => ChecksInv
  BY DEF Init, ChecksInv, HeldOnlyToSend, SeenWasDone, SessionChecksAccounted,
         Healthy, InSession
<1>2. ChecksInv => SessionChecksAccounted
  BY DEF ChecksInv
<1> QED
  BY <1>1, <1>2, IInvInit, IInvStep, ChecksStep, PTL DEF Spec
-----------------------------------------------------------------------------
(* Effects.  The items between the tracker and the applier are in           *)
(* new_items; only there an inventory item can be that has had no effect    *)
(* yet.  poll() leaves the list to one_iteration or empty: it is empty      *)
(* whenever a send can raise out of poll(), because the second half of a    *)
(* split grant continues the first and cannot be the packet with the gap.   *)
NothingLeft ==
    pc \in {"down", "connect", "prime", "poll", "check", "send", "resend"}
       => new_items = <<>>
Continues ==
    pc = "batch" /\ new_items # <<>> =>
       IsItems(Head(toClient)) /\ Head(toClient).index = next_index
IsContinued(p, next) == IsItems(next) /\ next.index = Upto(p)
Bundled(q) ==
    \A k \in 1..(Len(q) - 1) :
       IsItems(q[k]) /\ q[k].end = "more" => IsContinued(q[k], q[k + 1])
PollInv == NothingLeft /\ Continues /\ Bundled(toClient)

\* What an effect is measured by: money, and copies of an item.
Money == [s \in Seq(Items) |-> MoneyIn(s)]
CopiesOf(i) == [s \in Seq(Items) |-> Copies(i, s)]

AtLeastOnce ==
    /\ ap_money_total + Money[new_items] >= Money[inventory]
    /\ \A i \in Items : Price[i] = 0 =>
          CopiesOf(i)[applied_pending] + CopiesOf(i)[new_items]
             >= CopiesOf(i)[inventory]
ExactlyOnce ==
    /\ ap_money_total + Money[new_items] = Money[inventory]
    /\ \A i \in Items : Price[i] = 0 =>
          CopiesOf(i)[applied_pending] + CopiesOf(i)[new_items]
             = CopiesOf(i)[inventory]

\* Both measures add up over sequences.
LEMMA MeasureFacts ==
    /\ Additive(Money, Items)
    /\ \A x \in Items : Money[<<x>>] = Price[x]
    /\ \A i \in Items : Additive(CopiesOf(i), Items)
    /\ \A i, x \in Items : CopiesOf(i)[<<x>>] = IF x = i THEN 1 ELSE 0
<1>1. \A s : MoneyIn(s) = Worth(Price, s)
  BY DEF MoneyIn, Worth
<1>2. \A i, s : Copies(i, s) = Occurrences(i, s)
  BY DEF Copies, Occurrences
<1>3. Additive(Money, Items) /\ \A x \in Items : Worth(Price, <<x>>) = Price[x]
  BY <1>1, PriceAssumption, WorthAddsUp DEF Money
<1>4. ASSUME NEW i \in Items
      PROVE  /\ Additive(CopiesOf(i), Items)
             /\ \A x \in Items : Occurrences(i, <<x>>) = IF x = i THEN 1 ELSE 0
  BY <1>2, OccurrencesAddUp DEF CopiesOf
<1>5. \A x \in Items : <<x>> \in Seq(Items)
  OBVIOUS
<1>6. \A x \in Items : Money[<<x>>] = Price[x]
  BY <1>1, <1>3, <1>5 DEF Money
<1>7. \A i, x \in Items : CopiesOf(i)[<<x>>] = IF x = i THEN 1 ELSE 0
  BY <1>2, <1>4, <1>5 DEF CopiesOf
<1> QED BY <1>3, <1>4, <1>6, <1>7

\* An empty sequence measures 0, every sequence a natural.
LEMMA MeasureTypes ==
    ASSUME NEW m, Additive(m, Items)
    PROVE  m[<<>>] = 0 /\ \A s \in Seq(Items) : m[s] \in Nat
BY DEF Additive

\* What poll() adds to its list it adds to the inventory, too, unless the
\* inventory starts over.
LEMMA ReceiveItemsMeasure ==
    ASSUME TypeOK, ReceiveItems, NEW m, Additive(m, Items)
    PROVE  \E d \in Nat :
              /\ m[new_items'] = m[new_items] + d
              /\ Head(toClient).index = 0 => m[inventory'] = d
              /\ Head(toClient).index # 0 => m[inventory'] = m[inventory] + d
<1> DEFINE p == Head(toClient)
<1>1. p \in Packets /\ p.items \in Seq(Items)
  BY UptoType DEF ReceiveItems, Reading, TypeOK
<1>2. new_items \in Seq(Items) /\ inventory \in Seq(Items)
  BY DEF TypeOK
<1>3. new_items' = new_items \o p.items
  BY DEF ReceiveItems, Collected
<1>4. inventory' = IF p.index = 0 THEN p.items ELSE inventory \o p.items
  BY DEF ReceiveItems, Rebuilt
<1> HIDE DEF p
<1>5. /\ m[new_items'] = m[new_items] + m[p.items]
      /\ m[inventory \o p.items] = m[inventory] + m[p.items]
  BY <1>1, <1>2, <1>3, MeasureOfConcat
<1>6. m[p.items] \in Nat
  BY <1>1, MeasureTypes
<1> QED BY <1>4, <1>5, <1>6 DEF p

\* An applied item moves from poll()'s list to its effect.
LEMMA ApplyItemMeasure ==
    ASSUME TypeOK, ApplyItem
    PROVE  /\ ap_money_total + Money[new_items] = ap_money_total' + Money[new_items']
           /\ \A i \in Items : Price[i] = 0 =>
                 CopiesOf(i)[applied_pending] + CopiesOf(i)[new_items]
                    = CopiesOf(i)[applied_pending'] + CopiesOf(i)[new_items']
<1> DEFINE x == Head(new_items)
<1>1. /\ new_items \in Seq(Items) /\ new_items # <<>>
      /\ x \in Items /\ Tail(new_items) \in Seq(Items)
      /\ new_items' = Tail(new_items)
      /\ applied_pending \in Seq(Items) /\ ap_money_total \in Nat
      /\ Price[x] \in Nat
  BY PriceAssumption DEF ApplyItem, TypeOK
<1>2. /\ ap_money_total' = ap_money_total + Price[x]
      /\ applied_pending' = IF Price[x] > 0 THEN applied_pending
                            ELSE Append(applied_pending, x)
  BY DEF ApplyItem, Credited
<1> HIDE DEF x
<1>3. ap_money_total + Money[new_items] = ap_money_total' + Money[new_items']
  <2>1. Money[new_items] = Price[x] + Money[new_items']
    <3>1. Additive(Money, Items) /\ Money[<<x>>] = Price[x]
      BY <1>1, MeasureFacts
    <3>2. Money[new_items] = Money[<<x>>] + Money[Tail(new_items)]
      BY <1>1, <3>1, MeasureOfTail DEF x
    <3> QED BY <1>1, <3>1, <3>2
  <2>2. Money[new_items'] \in Nat
    BY <1>1, MeasureFacts, MeasureTypes
  <2> QED BY <1>1, <1>2, <2>1, <2>2
<1>4. ASSUME NEW i \in Items, Price[i] = 0
      PROVE  CopiesOf(i)[applied_pending] + CopiesOf(i)[new_items]
                = CopiesOf(i)[applied_pending'] + CopiesOf(i)[new_items']
  <2> DEFINE m == CopiesOf(i)
  <2>1. Additive(m, Items) /\ m[<<x>>] = IF x = i THEN 1 ELSE 0
    BY <1>1, MeasureFacts
  <2> HIDE DEF m
  <2>2. m[new_items] = m[<<x>>] + m[new_items']
    BY <1>1, <2>1, MeasureOfTail DEF x
  <2>3. m[applied_pending] \in Nat /\ m[new_items'] \in Nat
    BY <1>1, <2>1, MeasureTypes
  <2>4. m[applied_pending'] = m[applied_pending] + m[<<x>>]
    <3>1. CASE Price[x] > 0
      <4>1. m[<<x>>] = 0
        BY <1>4, <2>1, <3>1
      <4> QED BY <1>2, <2>3, <3>1, <4>1
    <3>2. CASE ~(Price[x] > 0)
      BY <1>1, <1>2, <2>1, <3>2 DEF Additive
    <3> QED BY <3>1, <3>2
  <2>5. m[<<x>>] \in Nat
    BY <2>1
  <2> QED BY <2>2, <2>3, <2>4, <2>5 DEF m
<1> QED BY <1>3, <1>4

\* With the process, its list, its inventory and its effects are gone.
LEMMA ExitEffects ==
    ASSUME Exit
    PROVE  AtLeastOnce' /\ ExactlyOnce'
<1>1. /\ ap_money_total' = 0 /\ applied_pending' = <<>>
      /\ new_items' = <<>> /\ inventory' = <<>>
  BY DEF Exit
<1>2. Money[<<>>] = 0 /\ \A i \in Items : CopiesOf(i)[<<>>] = 0
  BY MeasureFacts, MeasureTypes
<1> QED BY <1>1, <1>2 DEF AtLeastOnce, ExactlyOnce

\* Every step keeps the effects in step with the inventory; the first
\* ReceivedItems must fit by its own index for that to be exact.
LEMMA EffectsStep ==
    ASSUME IInv, PollInv, [Next]_vars
    PROVE  /\ AtLeastOnce => AtLeastOnce'
           /\ ExactlyOnce /\ (ReceiveItems => Head(toClient).index = next_index)
                 => ExactlyOnce'
<1> USE DEF IInv
<1>1. ASSUME UNCHANGED <<ap_money_total, applied_pending, new_items, inventory>>
      PROVE  (AtLeastOnce => AtLeastOnce') /\ (ExactlyOnce => ExactlyOnce')
  BY <1>1 DEF AtLeastOnce, ExactlyOnce
<1>2. CASE Exit
  BY <1>2, ExitEffects
<1>3. CASE ReceiveItems
  <2>1. /\ inventory \in Seq(Items) /\ new_items \in Seq(Items)
        /\ applied_pending \in Seq(Items) /\ ap_money_total \in Nat
    BY DEF TypeOK
  <2>2. ap_money_total' = ap_money_total /\ applied_pending' = applied_pending
    BY <1>3 DEF ReceiveItems, applier
  <2>3. ASSUME NEW m, Additive(m, Items), NEW a \in Nat
        PROVE  /\ a + m[new_items] >= m[inventory] => a + m[new_items'] >= m[inventory']
               /\ a + m[new_items] = m[inventory] /\ Head(toClient).index = next_index
                     => a + m[new_items'] = m[inventory']
    <3>1. PICK d \in Nat :
              /\ m[new_items'] = m[new_items] + d
              /\ Head(toClient).index = 0 => m[inventory'] = d
              /\ Head(toClient).index # 0 => m[inventory'] = m[inventory] + d
      BY <1>3, <2>3, ReceiveItemsMeasure
    <3>2. m[new_items] \in Nat /\ m[inventory] \in Nat
      BY <2>1, <2>3, MeasureTypes
    <3>3. next_index = 0 => m[inventory] = 0
      <4>1. next_index = 0 => inventory = <<>>
        BY <2>1, EmptySeq DEF InventoryIsPrefix
      <4> QED BY <2>3, <4>1, MeasureTypes
    <3> QED BY <3>1, <3>2, <3>3
  <2>4. ap_money_total + Money[new_items] >= Money[inventory]
           => ap_money_total' + Money[new_items'] >= Money[inventory']
    BY <2>1, <2>2, <2>3, MeasureFacts
  <2>5. ap_money_total + Money[new_items] = Money[inventory]
        /\ Head(toClient).index = next_index
           => ap_money_total' + Money[new_items'] = Money[inventory']
    BY <2>1, <2>2, <2>3, MeasureFacts
  <2>6. ASSUME NEW i \in Items
        PROVE  /\ CopiesOf(i)[applied_pending] + CopiesOf(i)[new_items]
                     >= CopiesOf(i)[inventory]
                  => CopiesOf(i)[applied_pending'] + CopiesOf(i)[new_items']
                        >= CopiesOf(i)[inventory']
               /\ CopiesOf(i)[applied_pending] + CopiesOf(i)[new_items]
                     = CopiesOf(i)[inventory] /\ Head(toClient).index = next_index
                  => CopiesOf(i)[applied_pending'] + CopiesOf(i)[new_items']
                        = CopiesOf(i)[inventory']
    <3> DEFINE m == CopiesOf(i)
    <3>1. Additive(m, Items)
      BY MeasureFacts
    <3> HIDE DEF m
    <3>2. m[applied_pending] \in Nat
      BY <2>1, <3>1, MeasureTypes
    <3>3. /\ m[applied_pending] + m[new_items] >= m[inventory]
             => m[applied_pending] + m[new_items'] >= m[inventory']
          /\ m[applied_pending] + m[new_items] = m[inventory]
             /\ Head(toClient).index = next_index
             => m[applied_pending] + m[new_items'] = m[inventory']
      BY <2>3, <3>1, <3>2
    <3> QED BY <2>2, <3>3 DEF m
  <2>7. AtLeastOnce => AtLeastOnce'
    BY <2>4, <2>6 DEF AtLeastOnce
  <2>8. ExactlyOnce /\ Head(toClient).index = next_index => ExactlyOnce'
    BY <2>5, <2>6 DEF ExactlyOnce
  <2> QED BY <1>3, <2>7, <2>8
<1>4. CASE ApplyItem
  <2>1. inventory' = inventory
    BY <1>4 DEF ApplyItem, tracker
  <2> QED BY <1>4, <2>1, ApplyItemMeasure DEF AtLeastOnce, ExactlyOnce
<1>5. CASE PollRaises
  <2>1. new_items = <<>>
    BY <1>5 DEF PollRaises, Gap, Reading, Fits, PollInv, NothingLeft, Continues
  <2> QED BY <1>1, <1>5, <2>1 DEF PollRaises, tracker, applier
<1> QED
  BY <1>1, <1>2, <1>3, <1>4, <1>5
  DEF Next, Process, Server, Environment, Refused, SendRaises, Stop, Start, Connected,
      Prime, PollNothing, ReceiveGap, ResendChecks, ReceiveRoomUpdate, ItemsApplied,
      PollChecks, SendChecks, AcceptConnect, AnswerSync, RegisterChecks, SendNewItems,
      RefuseConnect, Drop, Grant, Achieve, vars, tracker, applier, client

\* Splits of a message stay together in what is left of the queue, and in
\* the queue with another packet at its end.
LEMMA BundledQueues ==
    ASSUME NEW q \in Seq(Packets), Bundled(q)
    PROVE  /\ \A m \in 1..(Len(q) + 1), n \in 0..Len(q) : Bundled(SubSeq(q, m, n))
           /\ q # <<>> => Bundled(Tail(q))
           /\ \A p \in Packets :
                 (q # <<>> /\ IsItems(q[Len(q)]) /\ q[Len(q)].end = "more"
                     => IsContinued(q[Len(q)], p))
                 => Bundled(Append(q, p))
<1>1. ASSUME NEW m \in 1..(Len(q) + 1), NEW n \in 0..Len(q)
      PROVE  Bundled(SubSeq(q, m, n))
  <2> DEFINE r == SubSeq(q, m, n)
  <2>1. /\ Len(r) \in Nat
        /\ \A k \in 1..Len(r) : r[k] = q[m + k - 1]
    OBVIOUS
  <2>2. \A k \in 1..(Len(r) - 1) :
           /\ k \in 1..Len(r) /\ k + 1 \in 1..Len(r)
           /\ m + k - 1 \in 1..(Len(q) - 1) /\ m + (k + 1) - 1 = (m + k - 1) + 1
    OBVIOUS
  <2> HIDE DEF r
  <2>3. ASSUME NEW k \in 1..(Len(r) - 1), IsItems(r[k]), r[k].end = "more"
        PROVE  IsContinued(r[k], r[k + 1])
    <3>1. r[k] = q[m + k - 1] /\ r[k + 1] = q[m + (k + 1) - 1]
      BY <2>1, <2>2
    <3> QED BY <2>2, <2>3, <3>1 DEF Bundled
  <2> QED BY <2>3 DEF Bundled, r
<1>2. q # <<>> => Bundled(Tail(q))
  <2> SUFFICES ASSUME q # <<>> PROVE Bundled(Tail(q))
    OBVIOUS
  <2>1. Tail(q) = SubSeq(q, 2, Len(q)) /\ 2 \in 1..(Len(q) + 1) /\ Len(q) \in 0..Len(q)
    BY TailIsSubSeq
  <2> QED BY <1>1, <2>1
<1>3. ASSUME NEW p \in Packets,
             q # <<>> /\ IsItems(q[Len(q)]) /\ q[Len(q)].end = "more"
                => IsContinued(q[Len(q)], p)
      PROVE  Bundled(Append(q, p))
  <2> DEFINE r == Append(q, p)
  <2>1. /\ Len(r) = Len(q) + 1 /\ Len(q) \in Nat
        /\ r[Len(q) + 1] = p
        /\ \A k \in 1..Len(q) : r[k] = q[k]
    OBVIOUS
  <2> HIDE DEF r
  <2>2. ASSUME NEW k \in 1..(Len(r) - 1), IsItems(r[k]), r[k].end = "more"
        PROVE  IsContinued(r[k], r[k + 1])
    <3>1. k \in 1..Len(q) /\ r[k] = q[k]
      BY <2>1
    <3>2. CASE k = Len(q)
      <4>1. q # <<>> /\ r[k + 1] = p
        BY <2>1, <3>1, <3>2
      <4> QED BY <1>3, <2>2, <3>1, <3>2, <4>1
    <3>3. CASE k # Len(q)
      <4>1. k \in 1..(Len(q) - 1) /\ r[k + 1] = q[k + 1]
        BY <2>1, <3>1, <3>3
      <4> QED BY <2>2, <3>1, <4>1 DEF Bundled
    <3> QED BY <3>2, <3>3
  <2> QED BY <2>2 DEF Bundled, r
<1> QED BY <1>1, <1>2, <1>3

\* What the server and the link do to the queue keeps bundles together.
LEMMA BundledStep ==
    ASSUME IInv, Bundled(toClient), [Next]_vars
    PROVE  Bundled(toClient')
<1> USE DEF IInv
<1>1. /\ toClient \in Seq(Packets) /\ Len(toClient) \in Nat
      /\ checked \in SUBSET Locations
      /\ log \in Seq(Items) /\ Len(log) \in Nat /\ cursor \in 0..Len(log)
      /\ 0 \in 0..Len(log) /\ Len(log) \in 0..Len(log)
  BY DEF TypeOK
<1>2. toClient # <<>> => toClient[Len(toClient)].end # "more"
  BY DEF WholeMessages
<1>3. ASSUME NEW p \in Packets PROVE Bundled(Append(toClient, p))
  BY <1>1, <1>2, <1>3, BundledQueues
<1>4. ASSUME NEW p \in Packets, NEW r \in Packets,
             IsItems(p) => IsContinued(p, r)
      PROVE  Bundled(Append(Append(toClient, p), r))
  <2> DEFINE q == Append(toClient, p)
  <2>1. q \in Seq(Packets) /\ q[Len(q)] = p
    BY <1>1
  <2>2. Bundled(q)
    BY <1>3
  <2> HIDE DEF q
  <2>3. Bundled(Append(q, r))
    BY <1>4, <2>1, <2>2, BundledQueues
  <2> QED BY <2>3 DEF q
<1>5. Bundled(<<>>)
  BY DEF Bundled
<1>6. CASE AcceptConnect
  <2> DEFINE p(m) == ServerPacket("Connected", checked, m)
             r == Received(0, Len(log), "last")
  <2>1. PICK m \in {"more", "last"} :
           toClient' = IF log = <<>> THEN Append(toClient, p(m))
                       ELSE Append(Append(toClient, p(m)), r)
    BY <1>6 DEF AcceptConnect
  <2>2. p(m) \in Packets /\ ~IsItems(p(m)) /\ r \in Packets
    BY <1>1, PacketTypes DEF ServerPacket, IsItems
  <2> HIDE DEF p, r
  <2> QED BY <1>3, <1>4, <2>1, <2>2
<1>7. CASE AnswerSync
  <2> DEFINE r == Received(0, Len(log), "last")
  <2>1. r \in Packets
    BY <1>1, PacketTypes
  <2>2. toClient' = toClient \/ toClient' = Append(toClient, r)
    BY <1>7 DEF AnswerSync
  <2> HIDE DEF r
  <2> QED BY <1>3, <2>1, <2>2
<1>8. CASE RegisterChecks
  <2> DEFINE r == ServerPacket("RoomUpdate", checked', "last")
  <2>1. checked' \in SUBSET Locations
    BY TypeStep DEF TypeOK
  <2>2. r \in Packets
    BY <2>1, PacketTypes
  <2>3. toClient' = toClient \/ toClient' = Append(toClient, r)
    BY <1>8 DEF RegisterChecks
  <2> HIDE DEF r
  <2> QED BY <1>3, <2>2, <2>3
<1>9. CASE SendNewItems
  <2>1. CASE toClient' = Append(toClient, Received(cursor, Len(log), "last"))
    <3>1. Received(cursor, Len(log), "last") \in Packets
      BY <1>1, PacketTypes
    <3> QED BY <1>3, <2>1, <3>1
  <2>2. ASSUME NEW k \in (cursor + 1)..(Len(log) - 1),
               toClient' = Append(Append(toClient, Received(cursor, k, "more")),
                                  Received(k, Len(log), "last"))
        PROVE  Bundled(toClient')
    <3> DEFINE p == Received(cursor, k, "more")
               r == Received(k, Len(log), "last")
    <3>1. k \in 0..Len(log) /\ cursor \in Nat /\ cursor < k
      BY <1>1
    <3>2. p \in Packets /\ r \in Packets
      BY <1>1, <3>1, PacketTypes
    <3>3. IsContinued(p, r)
      <4>1. Len(SubSeq(log, cursor + 1, k)) = k - cursor
        BY <1>1, <3>1
      <4>2. Upto(p) = k
        BY <3>1, <4>1 DEF Received, Upto
      <4> QED BY <4>2 DEF Received, IsContinued, IsItems
    <3> HIDE DEF p, r
    <3>4. Bundled(Append(Append(toClient, p), r))
      BY <1>4, <3>2, <3>3
    <3> QED BY <2>2, <3>4 DEF p, r
  <2> QED BY <1>9, <2>1, <2>2 DEF SendNewItems
<1>10. CASE RefuseConnect
  <2> DEFINE p == ServerPacket("ConnectionRefused", {}, "last")
  <2>1. p \in Packets
    BY PacketTypes
  <2>2. toClient' = Append(toClient, p)
    BY <1>10 DEF RefuseConnect
  <2> HIDE DEF p
  <2> QED BY <1>3, <2>1, <2>2
<1>11. CASE Drop
  <2>1. PICK k \in 0..Len(toClient) : toClient' = SubSeq(toClient, 1, k)
    BY <1>11 DEF Drop
  <2>2. 1 \in 1..(Len(toClient) + 1)
    BY <1>1
  <2> QED BY <1>1, <2>1, <2>2, BundledQueues
<1>12. ASSUME DiscardMessage PROVE Bundled(toClient')
  <2>1. PICK k \in 1..Len(toClient) : toClient' = SubSeq(toClient, k + 1, Len(toClient))
    BY <1>12 DEF DiscardMessage
  <2>2. k + 1 \in 1..(Len(toClient) + 1) /\ Len(toClient) \in 0..Len(toClient)
    BY <1>1
  <2> QED BY <1>1, <2>1, <2>2, BundledQueues
<1>13. ASSUME toClient # <<>>, toClient' = Tail(toClient) PROVE Bundled(toClient')
  BY <1>1, <1>13, BundledQueues
<1>14. CASE toClient' = toClient \/ toClient' = <<>>
  BY <1>5, <1>14
<1> QED
  BY <1>6, <1>7, <1>8, <1>9, <1>10, <1>11, <1>12, <1>13, <1>14
  DEF Next, Process, Server, Environment, Refused, SendRaises, Stop, Prime,
      PollNothing, ReceiveGap, ApplyItem, ItemsApplied, PollChecks, SendChecks,
      Start, Exit, Connected, PollRaises, ReceiveItems, ResendChecks,
      ReceiveRoomUpdate, InMessage, Reading, Grant, Achieve, vars, network

\* Every step keeps PollInv.
LEMMA PollInvStep ==
    ASSUME IInv, PollInv, [Next]_vars
    PROVE  PollInv'
<1> USE DEF IInv
<1>1. Bundled(toClient')
  BY BundledStep DEF PollInv
<1> SUFFICES NothingLeft' /\ Continues'
  BY <1>1 DEF PollInv
<1>2. toClient \in Seq(Packets) /\ Len(toClient) \in Nat
  BY DEF TypeOK
<1>3. ASSUME pc' \notin {"batch", "apply"}, new_items' = <<>>
      PROVE  NothingLeft' /\ Continues'
  BY <1>3 DEF NothingLeft, Continues
<1>4. CASE Start \/ Connected \/ Prime \/ PollNothing \/ ReceiveGap \/ PollRaises
           \/ ItemsApplied \/ PollChecks \/ SendChecks
  <2>1. new_items' = <<>>
    BY <1>4
    DEF Start, Connected, Prime, PollNothing, ReceiveGap, PollRaises, ItemsApplied,
        PollChecks, SendChecks, Gap, Reading, Fits, PollInv, NothingLeft, Continues
  <2>2. pc' \notin {"batch", "apply"}
    BY <1>4
    DEF Start, Connected, Prime, PollNothing, ReceiveGap, PollRaises, ItemsApplied,
        PollChecks, SendChecks
  <2> QED BY <1>3, <2>1, <2>2
<1>5. ASSUME Exit PROVE NothingLeft' /\ Continues'
  BY <1>3, <1>5 DEF Exit
<1>6. CASE ReceiveItems
  <2> DEFINE p == Head(toClient)
  <2>1. p \in Packets /\ IsItems(p) /\ p = toClient[1] /\ toClient # <<>>
        /\ toClient' = Tail(toClient) /\ pc' = AfterPacket(p)
    BY <1>2, <1>6 DEF ReceiveItems, Reading, IsItems
  <2>2. next_index' = Upto(p)
    BY <1>6 DEF ReceiveItems, Upto
  <2>3. ASSUME pc' = "batch"
        PROVE  IsItems(Head(toClient')) /\ Head(toClient').index = next_index'
    <3>1. p.end = "more"
      BY <2>1, <2>3 DEF AfterPacket
    <3>2. Len(toClient) # 1 /\ Len(toClient) # 0
      BY <1>2, <2>1, <3>1 DEF WholeMessages
    <3>3. Head(toClient') = toClient[2] /\ 1 \in 1..(Len(toClient) - 1) /\ 1 + 1 = 2
      <4>1. Len(toClient) >= 2
        <5>1. \A n \in Nat : n # 0 /\ n # 1 => n >= 2
          OBVIOUS
        <5> QED BY <1>2, <3>2, <5>1
      <4>2. Tail(toClient) = SubSeq(toClient, 2, Len(toClient))
        BY <1>2, <2>1, TailIsSubSeq
      <4> QED BY <1>2, <2>1, <4>1, <4>2
    <3>4. IsContinued(toClient[1], toClient[1 + 1])
      BY <2>1, <3>1, <3>3 DEF PollInv, Bundled
    <3> QED BY <2>1, <2>2, <3>3, <3>4 DEF IsContinued
  <2>4. pc' \in {"batch", "apply"}
    BY <2>1 DEF AfterPacket
  <2> QED BY <2>3, <2>4 DEF NothingLeft, Continues
<1>7. CASE ReceiveRoomUpdate \/ ResendChecks
  <2>1. new_items' = <<>>
    BY <1>7 DEF ReceiveRoomUpdate, ResendChecks, Reading, PollInv, NothingLeft, Continues, IsItems
  <2> QED BY <2>1 DEF NothingLeft, Continues
<1>8. CASE ApplyItem
  BY <1>8 DEF ApplyItem, NothingLeft, Continues
<1>9. ASSUME UNCHANGED <<pc, new_items, next_index>>,
             pc = "batch" => Head(toClient') = Head(toClient)
      PROVE  NothingLeft' /\ Continues'
  BY <1>9 DEF PollInv, NothingLeft, Continues
<1>10. ASSUME toClient # <<>>,
              \/ toClient' = toClient
              \/ \E p : toClient' = Append(toClient, p)
              \/ \E p, r : toClient' = Append(Append(toClient, p), r)
              \/ \E k \in 1..Len(toClient) : toClient' = SubSeq(toClient, 1, k)
       PROVE  Head(toClient') = Head(toClient)
  <2>1. ASSUME NEW X, NEW q \in Seq(X), q # <<>>, NEW p PROVE Head(Append(q, p)) = Head(q)
    <3>1. q \in Seq(X \cup {p})
      BY SeqMonotonic
    <3> QED BY <2>1, <3>1
  <2>2. ASSUME NEW p PROVE Head(Append(toClient, p)) = Head(toClient)
    BY <1>2, <1>10, <2>1
  <2>3. ASSUME NEW p, NEW r PROVE Head(Append(Append(toClient, p), r)) = Head(toClient)
    <3>1. Append(toClient, p) \in Seq(Packets \cup {p}) /\ Append(toClient, p) # <<>>
      BY <1>2, AppendNotEmpty
    <3>2. Head(Append(Append(toClient, p), r)) = Head(Append(toClient, p))
      BY <2>1, <3>1
    <3> QED BY <2>2, <3>2
  <2>4. ASSUME NEW k \in 1..Len(toClient) PROVE Head(SubSeq(toClient, 1, k)) = Head(toClient)
    BY <1>2
  <2> QED BY <1>10, <2>2, <2>3, <2>4
<1>11. CASE Server \/ RefuseConnect
  <2>1. UNCHANGED <<pc, new_items, next_index>>
    BY <1>11 DEF Server, AcceptConnect, AnswerSync, RegisterChecks, SendNewItems,
                 RefuseConnect, client, tracker
  <2>2. \/ toClient' = toClient
        \/ \E p : toClient' = Append(toClient, p)
        \/ \E p, r : toClient' = Append(Append(toClient, p), r)
    BY <1>11 DEF Server, AcceptConnect, AnswerSync, RegisterChecks, SendNewItems,
                 RefuseConnect
  <2> QED BY <1>9, <1>10, <2>1, <2>2 DEF InMessage
<1>12. CASE Drop
  <2>1. UNCHANGED <<pc, new_items, next_index>>
    BY <1>12 DEF Drop, client, tracker
  <2>2. pc = "batch" => \E k \in 1..Len(toClient) : toClient' = SubSeq(toClient, 1, k)
    BY <1>2, <1>12 DEF Drop
  <2> QED BY <1>9, <1>10, <2>1, <2>2 DEF InMessage
<1>13. ASSUME UNCHANGED <<pc, new_items, next_index, toClient>>
       PROVE  NothingLeft' /\ Continues'
  BY <1>9, <1>13
<1> QED
  BY <1>4, <1>5, <1>6, <1>7, <1>8, <1>11, <1>12, <1>13
  DEF Next, Process, Environment, Refused, SendRaises, Stop, Grant, Achieve, vars,
      network, client, tracker

(* Nothing under-granted: what is settled has had its effect at least once, *)
(* under every loss, split and repetition.                                 *)
THEOREM NothingUnderGrantedTheorem == Spec => []NothingUnderGranted
<1>1. Init => IInv /\ PollInv /\ AtLeastOnce
  <2>1. Money[<<>>] = 0 /\ \A i \in Items : CopiesOf(i)[<<>>] = 0
    BY MeasureFacts, MeasureTypes
  <2> QED BY <2>1, IInvInit DEF Init, PollInv, NothingLeft, Continues, Bundled, AtLeastOnce
<1>2. IInv /\ PollInv /\ AtLeastOnce /\ [Next]_vars => (IInv /\ PollInv /\ AtLeastOnce)'
  BY IInvStep, PollInvStep, EffectsStep
<1>3. IInv /\ PollInv /\ AtLeastOnce => NothingUnderGranted
  <2> SUFFICES ASSUME IInv, PollInv, AtLeastOnce, Settled PROVE
               /\ ap_money_total >= MoneyIn(inventory)
               /\ \A i \in Items : Price[i] = 0 =>
                     Copies(i, applied_pending) >= Copies(i, inventory)
    BY DEF NothingUnderGranted
  <2>1. new_items = <<>> /\ new_items \in Seq(Items)
    BY DEF Settled, PollInv, NothingLeft, IInv, TypeOK
  <2>2. /\ inventory \in Seq(Items) /\ applied_pending \in Seq(Items)
        /\ ap_money_total \in Nat
    BY DEF IInv, TypeOK
  <2>3. Money[new_items] = 0 /\ \A i \in Items : CopiesOf(i)[new_items] = 0
    BY <2>1, MeasureFacts, MeasureTypes
  <2>4. Money[inventory] \in Nat /\ \A i \in Items : CopiesOf(i)[applied_pending] \in Nat
    BY <2>2, MeasureFacts, MeasureTypes
  <2>5. /\ MoneyIn(inventory) = Money[inventory]
        /\ \A i \in Items : /\ Copies(i, inventory) = CopiesOf(i)[inventory]
                            /\ Copies(i, applied_pending) = CopiesOf(i)[applied_pending]
    BY <2>2 DEF Money, CopiesOf
  <2> QED BY <2>2, <2>3, <2>4, <2>5 DEF AtLeastOnce
<1> QED BY <1>1, <1>2, <1>3, PTL DEF Spec
-----------------------------------------------------------------------------
(* Exactly once.  While connect() has thrown nothing away, the packets of   *)
(* the queue are one chain: the first continues the inventory, each other   *)
(* the one before it, and the last reaches what the server has sent on this *)
(* connection.  So each packet fits when it is taken, no Sync is sent, and  *)
(* no item is told twice.                                                  *)
Chained(q, low, high) ==
    /\ \A k \in 1..Len(q) : IsItems(q[k]) =>
          low <= q[k].index /\ q[k].index < Upto(q[k]) /\ Upto(q[k]) <= high
    /\ \A j, k \in 1..Len(q) :
          j < k /\ IsItems(q[j]) /\ IsItems(q[k]) => Upto(q[j]) <= q[k].index
    /\ \A k \in 1..Len(q) : IsItems(q[k]) =>
          \/ q[k].index = low
          \/ \E j \in 1..Len(q) : j < k /\ IsItems(q[j]) /\ Upto(q[j]) = q[k].index
Reaches(q, low, high) ==
    high = low \/ \E k \in 1..Len(q) : IsItems(q[k]) /\ Upto(q[k]) = high

\* A connection that is not accepted yet has nothing but its request.
Joining ==
    /\ pc \in {"down", "connect"} => skipped = "no"
    /\ link = "open" => /\ pc = "connect" /\ cursor = 0
                        /\ toServer \in {<<Connect>>, <<>>}
                        /\ \A k \in 1..Len(toClient) :
                              toClient[k].cmd = "ConnectionRefused"
    /\ link = "joined" => \A k \in 1..Len(toServer) : toServer[k] # Connect

ChainInv ==
    skipped = "no" =>
       /\ pc # "resend"
       /\ Chained(toClient, next_index, cursor)
       /\ link = "joined" => /\ Reaches(toClient, next_index, cursor)
                             /\ \A k \in 1..Len(toServer) : toServer[k] # Sync

\* The head of a chain continues the inventory, and the rest continues it.
LEMMA ChainedTail ==
    ASSUME NEW q \in Seq(Packets), q # <<>>, NEW low \in Nat, NEW high \in Nat,
           Chained(q, low, high)
    PROVE  /\ ~IsItems(Head(q)) =>
                 /\ Chained(Tail(q), low, high)
                 /\ Reaches(q, low, high) => Reaches(Tail(q), low, high)
           /\ IsItems(Head(q)) =>
                 /\ Head(q).index = low
                 /\ Chained(Tail(q), Upto(Head(q)), high)
                 /\ Reaches(q, low, high) => Reaches(Tail(q), Upto(Head(q)), high)
<1> DEFINE r == Tail(q)
           h == Head(q)
<1>1. /\ Len(q) \in Nat \ {0} /\ Len(r) = Len(q) - 1 /\ h = q[1] /\ 1 \in 1..Len(q)
      /\ \A k \in 1..Len(r) : r[k] = q[k + 1] /\ k + 1 \in 1..Len(q) /\ 1 < k + 1
      /\ \A j, k \in 1..Len(r) : j < k <=> j + 1 < k + 1
      /\ \A k \in 1..Len(q) : k # 1 => k - 1 \in 1..Len(r) /\ r[k - 1] = q[k]
  OBVIOUS
<1>2. \A k \in 1..Len(q) : q[k] \in Packets /\ q[k].index \in Nat /\ Upto(q[k]) \in Nat
  BY UptoType
<1> HIDE DEF r, h
<1>3. CASE ~IsItems(h)
  <2>1. \A k \in 1..Len(q) : IsItems(q[k]) => k - 1 \in 1..Len(r) /\ r[k - 1] = q[k]
    BY <1>1, <1>3
  <2>2. ASSUME NEW k \in 1..Len(r), IsItems(r[k]), r[k].index # low
        PROVE  \E j \in 1..Len(r) : j < k /\ IsItems(r[j]) /\ Upto(r[j]) = r[k].index
    <3>1. PICK j \in 1..Len(q) : j < k + 1 /\ IsItems(q[j]) /\ Upto(q[j]) = q[k + 1].index
      BY <1>1, <2>2 DEF Chained
    <3>2. j - 1 \in 1..Len(r) /\ r[j - 1] = q[j] /\ j - 1 < k
      BY <2>1, <3>1
    <3> QED BY <1>1, <3>1, <3>2
  <2>3. Chained(r, low, high)
    BY <1>1, <2>2 DEF Chained
  <2>4. Reaches(q, low, high) => Reaches(r, low, high)
    BY <2>1 DEF Reaches
  <2> QED BY <1>3, <2>3, <2>4 DEF r, h
<1>4. CASE IsItems(h)
  <2>1. h.index = low
    BY <1>1, <1>4 DEF Chained
  <2>2. ASSUME NEW k \in 1..Len(r), IsItems(r[k])
        PROVE  /\ Upto(h) <= r[k].index /\ r[k].index < Upto(r[k]) /\ Upto(r[k]) <= high
               /\ r[k].index # low
    <3>1. r[k] = q[k + 1] /\ k + 1 \in 1..Len(q) /\ 1 < k + 1
      BY <1>1
    <3>2. Upto(q[1]) <= q[k + 1].index /\ low < Upto(q[1])
      BY <1>1, <1>4, <2>1, <2>2, <3>1 DEF Chained
    <3>3. q[k + 1].index < Upto(q[k + 1]) /\ Upto(q[k + 1]) <= high
      BY <2>2, <3>1 DEF Chained
    <3> QED BY <1>1, <1>2, <3>1, <3>2, <3>3
  <2>3. ASSUME NEW k \in 1..Len(r), IsItems(r[k]), r[k].index # Upto(h)
        PROVE  \E j \in 1..Len(r) : j < k /\ IsItems(r[j]) /\ Upto(r[j]) = r[k].index
    <3>1. PICK j \in 1..Len(q) : j < k + 1 /\ IsItems(q[j]) /\ Upto(q[j]) = q[k + 1].index
      BY <1>1, <2>2, <2>3 DEF Chained
    <3>2. j # 1
      BY <1>1, <2>3, <3>1
    <3>3. j - 1 \in 1..Len(r) /\ r[j - 1] = q[j] /\ j - 1 < k
      BY <1>1, <3>1, <3>2
    <3> QED BY <1>1, <3>1, <3>3
  <2>4. Chained(r, Upto(h), high)
    BY <1>1, <2>2, <2>3 DEF Chained
  <2>5. ASSUME Reaches(q, low, high) PROVE Reaches(r, Upto(h), high)
    <3>1. PICK k \in 1..Len(q) : IsItems(q[k]) /\ Upto(q[k]) = high
      <4>1. low < Upto(q[1]) /\ Upto(q[1]) <= high
        BY <1>1, <1>4, <2>1 DEF Chained
      <4> QED BY <1>2, <2>5, <4>1 DEF Reaches
    <3> QED BY <1>1, <3>1 DEF Reaches
  <2> QED BY <1>4, <2>1, <2>4, <2>5 DEF r, h
<1> QED BY <1>3, <1>4 DEF h

\* A chain cut short is a chain, although it reaches less far.
LEMMA ChainedPrefix ==
    ASSUME NEW q \in Seq(Packets), NEW low, NEW high, Chained(q, low, high),
           NEW n \in 0..Len(q)
    PROVE  Chained(SubSeq(q, 1, n), low, high)
<1> DEFINE r == SubSeq(q, 1, n)
<1>1. /\ Len(r) = n /\ Len(q) \in Nat
      /\ \A k \in 1..n : r[k] = q[k] /\ k \in 1..Len(q)
  OBVIOUS
<1> HIDE DEF r
<1>2. ASSUME NEW k \in 1..n, IsItems(r[k]), r[k].index # low
      PROVE  \E j \in 1..n : j < k /\ IsItems(r[j]) /\ Upto(r[j]) = r[k].index
  <2>1. PICK j \in 1..Len(q) : j < k /\ IsItems(q[j]) /\ Upto(q[j]) = q[k].index
    BY <1>1, <1>2 DEF Chained
  <2>2. j \in 1..n
    BY <2>1
  <2> QED BY <1>1, <2>1, <2>2
<1> QED BY <1>1, <1>2 DEF Chained, r

\* A packet that continues where the chain ends makes it longer.
LEMMA ChainedAppend ==
    ASSUME NEW q \in Seq(Packets), NEW low \in Nat, NEW mid \in Nat, NEW high \in Nat,
           Chained(q, low, mid), Reaches(q, low, mid), low <= mid, NEW p \in Packets,
           IF IsItems(p) THEN p.index = mid /\ mid < Upto(p) /\ Upto(p) = high
                         ELSE mid = high
    PROVE  /\ Append(q, p) \in Seq(Packets)
           /\ Chained(Append(q, p), low, high)
           /\ Reaches(Append(q, p), low, high)
           /\ low <= high
<1> DEFINE r == Append(q, p)
           n == Len(q) + 1
<1>1. /\ r \in Seq(Packets) /\ Len(r) = n /\ Len(q) \in Nat
      /\ r[n] = p /\ n \in 1..n
      /\ \A k \in 1..Len(q) : r[k] = q[k] /\ k \in 1..n /\ k < n
      /\ \A k \in 1..n : k = n \/ k \in 1..Len(q)
  OBVIOUS
<1>2. \A k \in 1..Len(q) : q[k] \in Packets /\ q[k].index \in Nat /\ Upto(q[k]) \in Nat
  BY UptoType
<1>3. low <= high /\ mid <= high
  OBVIOUS
<1> HIDE DEF r, n
<1>4. ASSUME NEW k \in 1..n, IsItems(r[k])
      PROVE  low <= r[k].index /\ r[k].index < Upto(r[k]) /\ Upto(r[k]) <= high
  <2>1. CASE k = n
    BY <1>1, <1>3, <1>4, <2>1
  <2>2. CASE k \in 1..Len(q)
    <3>1. low <= q[k].index /\ q[k].index < Upto(q[k]) /\ Upto(q[k]) <= mid
      BY <1>1, <1>4, <2>2 DEF Chained
    <3> QED BY <1>1, <1>2, <1>3, <2>2, <3>1
  <2> QED BY <1>1, <2>1, <2>2
<1>5. ASSUME NEW j \in 1..n, NEW k \in 1..n, j < k, IsItems(r[j]), IsItems(r[k])
      PROVE  Upto(r[j]) <= r[k].index
  <2>1. j \in 1..Len(q)
    BY <1>1, <1>5 DEF n
  <2>2. CASE k = n
    BY <1>1, <1>5, <2>1, <2>2 DEF Chained
  <2>3. CASE k \in 1..Len(q)
    BY <1>1, <1>5, <2>1, <2>3 DEF Chained
  <2> QED BY <1>1, <2>2, <2>3
<1>6. ASSUME NEW k \in 1..n, IsItems(r[k]), r[k].index # low
      PROVE  \E j \in 1..n : j < k /\ IsItems(r[j]) /\ Upto(r[j]) = r[k].index
  <2>1. CASE k = n
    <3>1. PICK j \in 1..Len(q) : IsItems(q[j]) /\ Upto(q[j]) = mid
      BY <1>1, <1>6, <2>1 DEF Reaches
    <3> QED BY <1>1, <1>6, <2>1, <3>1
  <2>2. CASE k \in 1..Len(q)
    <3>1. PICK j \in 1..Len(q) : j < k /\ IsItems(q[j]) /\ Upto(q[j]) = q[k].index
      BY <1>1, <1>6, <2>2 DEF Chained
    <3> QED BY <1>1, <2>2, <3>1
  <2> QED BY <1>1, <2>1, <2>2
<1>7. Chained(r, low, high)
  BY <1>1, <1>4, <1>5, <1>6 DEF Chained
<1>8. Reaches(r, low, high)
  <2>1. CASE IsItems(p)
    BY <1>1, <2>1 DEF Reaches
  <2>2. CASE ~IsItems(p)
    BY <1>1, <2>2 DEF Reaches
  <2> QED BY <2>1, <2>2
<1> QED BY <1>1, <1>3, <1>7, <1>8 DEF r

\* What is sent on a link that is not joined yet, and the flag of connect().
LEMMA JoiningStep ==
    ASSUME IInv, Joining, [Next]_vars
    PROVE  Joining'
<1> USE DEF IInv
<1>1. /\ toServer \in Seq(Requests) /\ toClient \in Seq(Packets)
      /\ Sync \in Requests /\ Sync # Connect
      /\ \A S \in SUBSET Locations : LocationChecks(S) \in Requests /\ LocationChecks(S) # Connect
      /\ sent_checks \in SUBSET Locations /\ check_ids \in SUBSET Locations
  BY PacketTypes DEF TypeOK, Sync, Connect, LocationChecks
<1>2. ASSUME NEW r \in Requests, r # Connect, toServer' = Append(toServer, r),
             link' = link, pc # "connect", pc' # "connect", pc' # "down"
      PROVE  Joining'
  <2>1. /\ Len(toServer') = Len(toServer) + 1 /\ Len(toServer) \in Nat
        /\ toServer'[Len(toServer) + 1] = r
        /\ \A k \in 1..Len(toServer) : toServer'[k] = toServer[k]
    BY <1>1, <1>2
  <2>2. \A k \in 1..Len(toServer') : k = Len(toServer) + 1 \/ k \in 1..Len(toServer)
    BY <2>1
  <2>3. link = "joined" => \A k \in 1..Len(toServer') : toServer'[k] # Connect
    BY <1>2, <2>1, <2>2 DEF Joining
  <2> QED BY <1>2, <2>3 DEF Joining
<1>3. ASSUME toServer # <<>>, toServer' = Tail(toServer)
      PROVE  /\ (\A k \in 1..Len(toServer) : toServer[k] # Connect)
                   => \A k \in 1..Len(toServer') : toServer'[k] # Connect
             /\ toServer = <<Connect>> => toServer' = <<>>
             /\ Head(toServer) = toServer[1] /\ 1 \in 1..Len(toServer)
  <2>1. /\ Len(toServer) \in Nat \ {0} /\ Len(toServer') = Len(toServer) - 1
        /\ \A k \in 1..Len(toServer') : toServer'[k] = toServer[k + 1] /\ k + 1 \in 1..Len(toServer)
    BY <1>1, <1>3
  <2>2. toServer = <<Connect>> => toServer' = <<>>
    BY <1>3
  <2>3. Head(toServer) = toServer[1] /\ 1 \in 1..Len(toServer)
    BY <1>1, <1>3, <2>1
  <2> QED BY <2>1, <2>2, <2>3
<1>4. CASE Start
  BY <1>4 DEF Start, Joining
<1>5. ASSUME Exit PROVE Joining'
  BY <1>5 DEF Exit, Joining
<1>6. CASE Connected
  <2>1. link # "open"
    <3>1. Head(toClient) = toClient[1] /\ 1 \in 1..Len(toClient)
      BY <1>1, <1>6 DEF Connected
    <3> QED BY <1>6, <3>1 DEF Connected, Joining
  <2> QED BY <1>6, <2>1 DEF Connected, Joining
<1>7. ASSUME UNCHANGED <<link, toServer>>, pc # "connect", pc' \notin {"connect", "down"}
      PROVE  Joining'
  BY <1>7 DEF Joining
<1>8. CASE Prime \/ PollNothing \/ ReceiveItems \/ PollRaises \/ ReceiveRoomUpdate
           \/ ApplyItem \/ ItemsApplied \/ PollChecks
  <2>1. UNCHANGED <<link, toServer>>
    BY <1>8
    DEF Prime, PollNothing, ReceiveItems, PollRaises, ReceiveRoomUpdate, ApplyItem,
        ItemsApplied, PollChecks, network
  <2>2. pc # "connect" /\ pc' \notin {"connect", "down"}
    BY <1>8
    DEF Prime, PollNothing, ReceiveItems, PollRaises, ReceiveRoomUpdate, ApplyItem,
        ItemsApplied, PollChecks, Reading, Gap, AfterPacket
  <2> QED BY <1>7, <2>1, <2>2
<1>9. CASE ReceiveGap
  <2>1. toServer' = Append(toServer, Sync) /\ link' = link /\ pc # "connect" /\ pc' = "resend"
    BY <1>9 DEF ReceiveGap, Gap, Reading, Asked
  <2> QED BY <1>1, <1>2, <2>1
<1>10. CASE ResendChecks
  <2>1. link' = link /\ pc = "resend" /\ pc' \in {"batch", "apply"}
    BY <1>10 DEF ResendChecks, AfterPacket
  <2>2. toServer' = toServer \/ toServer' = Append(toServer, LocationChecks(sent_checks))
    BY <1>10 DEF ResendChecks
  <2>3. CASE toServer' = toServer
    BY <1>7, <2>1, <2>3
  <2>4. CASE toServer' = Append(toServer, LocationChecks(sent_checks))
    <3> DEFINE r == LocationChecks(sent_checks)
    <3>1. r \in Requests /\ r # Connect
      BY <1>1
    <3> HIDE DEF r
    <3>2. toServer' = Append(toServer, r)
      BY <2>4 DEF r
    <3> QED BY <1>2, <2>1, <3>1, <3>2
  <2> QED BY <2>2, <2>3, <2>4
<1>11. CASE SendChecks
  <2> DEFINE r == LocationChecks(check_ids)
  <2>1. r \in Requests /\ r # Connect
    BY <1>1
  <2>2. toServer' = Append(toServer, r) /\ link' = link /\ pc = "send" /\ pc' = "poll"
    BY <1>11 DEF SendChecks
  <2> HIDE DEF r
  <2> QED BY <1>2, <2>1, <2>2
<1>12. CASE AcceptConnect
  <2>1. /\ toServer # <<>> /\ toServer' = Tail(toServer) /\ link # "closed"
        /\ link' = "joined" /\ pc' = pc /\ skipped' = skipped /\ Head(toServer) = Connect
    BY <1>12 DEF AcceptConnect, client
  <2>2. link # "joined"
    BY <1>3, <2>1 DEF Joining
  <2>3. toServer' = <<>>
    BY <1>3, <2>1, <2>2 DEF Joining, TypeOK
  <2>4. \A k \in 1..Len(toServer') : toServer'[k] # Connect
    BY <2>3
  <2> QED BY <2>1, <2>4 DEF Joining
<1>13. CASE AnswerSync \/ RegisterChecks
  <2>1. /\ toServer # <<>> /\ toServer' = Tail(toServer) /\ link' = link
        /\ pc' = pc /\ skipped' = skipped /\ Head(toServer) # Connect
    BY <1>13 DEF AnswerSync, RegisterChecks, client, Sync, Connect
  <2>2. link # "open"
    BY <1>3, <2>1 DEF Joining
  <2>3. link = "joined" => \A k \in 1..Len(toServer') : toServer'[k] # Connect
    BY <1>3, <2>1 DEF Joining
  <2> QED BY <2>1, <2>2, <2>3 DEF Joining
<1>14. CASE SendNewItems
  BY <1>14 DEF SendNewItems, client, Joining
<1>15. CASE RefuseConnect
  <2> DEFINE p == ServerPacket("ConnectionRefused", {}, "last")
  <2>1. /\ toServer # <<>> /\ toServer' = Tail(toServer) /\ Head(toServer) = Connect
        /\ link # "closed" /\ toClient' = Append(toClient, p)
        /\ UNCHANGED <<link, pc, skipped, cursor>>
    BY <1>15 DEF RefuseConnect, client, server
  <2>2. p \in Packets /\ p.cmd = "ConnectionRefused"
    BY PacketTypes DEF ServerPacket
  <2>3. link = "open" /\ toServer' = <<>>
    BY <1>3, <2>1 DEF Joining, TypeOK
  <2> HIDE DEF p
  <2>4. \A k \in 1..Len(toClient') : toClient'[k].cmd = "ConnectionRefused"
    <3>1. /\ Len(toClient') = Len(toClient) + 1 /\ toClient'[Len(toClient) + 1] = p
          /\ \A k \in 1..Len(toClient) : toClient'[k] = toClient[k]
          /\ \A k \in 1..Len(toClient') : k = Len(toClient) + 1 \/ k \in 1..Len(toClient)
      BY <1>1, <2>1
    <3> QED BY <2>2, <2>3, <3>1 DEF Joining
  <2> QED BY <2>1, <2>3, <2>4 DEF Joining
<1>16. CASE Drop
  BY <1>16 DEF Drop, client, Joining
<1>17. ASSUME UNCHANGED <<pc, skipped, cursor, link, toClient, toServer>> PROVE Joining'
  BY <1>17 DEF Joining
<1> QED
  BY <1>4, <1>5, <1>6, <1>8, <1>9, <1>10, <1>11, <1>12, <1>13, <1>14, <1>15, <1>16, <1>17
  DEF Next, Process, Server, Environment, Refused, SendRaises, Stop, Grant, Achieve,
      vars, server, network, client

\* A packet of a chain fits.
LEMMA ChainedFits ==
    ASSUME IInv, ChainInv, skipped = "no", toClient # <<>>, IsItems(Head(toClient))
    PROVE  Head(toClient).index = next_index
<1>1. /\ toClient \in Seq(Packets) /\ next_index \in Nat /\ cursor \in Nat
      /\ Chained(toClient, next_index, cursor)
  BY DEF IInv, TypeOK, ChainInv
<1> QED BY <1>1, ChainedTail

\* Every step keeps the chain.
LEMMA ChainStep ==
    ASSUME IInv, Joining, ChainInv, [Next]_vars
    PROVE  ChainInv'
<1> USE DEF IInv
<1>1. /\ toServer \in Seq(Requests) /\ toClient \in Seq(Packets)
      /\ next_index \in Nat /\ cursor \in Nat /\ next_index <= cursor
      /\ log \in Seq(Items) /\ Len(log) \in Nat /\ cursor <= Len(log)
      /\ 0 \in 0..Len(log) /\ Len(log) \in 0..Len(log) /\ cursor \in 0..Len(log)
  BY DEF TypeOK
<1>2. ASSUME NEW f \in 0..Len(log), NEW t \in 0..Len(log), f < t, NEW m \in {"more", "last"}
      PROVE  /\ Received(f, t, m) \in Packets /\ IsItems(Received(f, t, m))
             /\ Received(f, t, m).index = f /\ Upto(Received(f, t, m)) = t
  <2>1. Received(f, t, m) \in Packets
    BY <1>2, PacketTypes
  <2>2. Len(SubSeq(log, f + 1, t)) = t - f
    BY <1>1, <1>2
  <2> QED BY <2>1, <2>2 DEF Received, Upto, IsItems
<1>3. \A low, high : Chained(<<>>, low, high) /\ Reaches(<<>>, low, low)
  BY DEF Chained, Reaches
<1>4. CASE Start
  <2>1. next_index' = 0 /\ cursor' = 0 /\ toClient' = <<>> /\ link' = "open" /\ pc' = "connect"
    BY <1>4 DEF Start, Down, tracker
  <2> QED BY <1>3, <2>1 DEF ChainInv
<1>5. ASSUME Exit PROVE ChainInv'
  <2>1. next_index' = 0 /\ toClient' = <<>> /\ link' = "closed" /\ pc' = "down"
    BY <1>5 DEF Exit
  <2> QED BY <1>3, <2>1 DEF ChainInv
<1>6. ASSUME skipped = "no", toClient # <<>>, toClient' = Tail(toClient),
             next_index' = IF IsItems(Head(toClient)) THEN Upto(Head(toClient)) ELSE next_index,
             cursor' = cursor, link' = link, toServer' = toServer, pc' # "resend"
      PROVE  ChainInv'
  BY <1>1, <1>6, ChainedTail DEF ChainInv
<1>7. CASE Connected
  <2> SUFFICES ASSUME skipped' = "no" PROVE ChainInv'
    BY DEF ChainInv
  <2>1. skipped = "no" /\ Head(toClient).end # "more" /\ toClient # <<>> /\ ~IsItems(Head(toClient))
    BY <1>7 DEF Connected, Joining, IsItems
  <2>2. toClient' = Tail(toClient)
    <3>1. PICK k \in 1..Len(toClient) :
             /\ \A j \in 1..(k - 1) : toClient[j].end = "more"
             /\ toClient' = SubSeq(toClient, k + 1, Len(toClient))
      BY <1>7 DEF Connected, DiscardMessage
    <3>2. Head(toClient) = toClient[1]
      BY <1>1, <2>1
    <3>3. k = 1
      BY <1>1, <2>1, <3>1, <3>2
    <3> QED BY <1>1, <2>1, <3>1, <3>3, TailIsSubSeq
  <2>3. /\ next_index' = next_index /\ cursor' = cursor /\ link' = link
        /\ toServer' = toServer /\ pc' = "prime"
    BY <1>7 DEF Connected, tracker, server
  <2> QED BY <1>6, <2>1, <2>2, <2>3
<1>8. CASE ReceiveItems
  <2>1. /\ toClient # <<>> /\ toClient' = Tail(toClient) /\ IsItems(Head(toClient))
        /\ next_index' = Upto(Head(toClient)) /\ cursor' = cursor /\ link' = link
        /\ toServer' = toServer /\ pc' # "resend" /\ skipped' = skipped
    BY <1>8 DEF ReceiveItems, Reading, IsItems, Upto, AfterPacket, server
  <2> QED BY <1>6, <2>1 DEF ChainInv
<1>9. CASE ReceiveRoomUpdate
  <2>1. /\ toClient # <<>> /\ toClient' = Tail(toClient) /\ ~IsItems(Head(toClient))
        /\ next_index' = next_index /\ cursor' = cursor /\ link' = link
        /\ toServer' = toServer /\ pc' # "resend" /\ skipped' = skipped
    BY <1>9 DEF ReceiveRoomUpdate, Reading, IsItems, AfterPacket, server, tracker
  <2> QED BY <1>6, <2>1 DEF ChainInv
<1>10. CASE ReceiveGap \/ ResendChecks \/ PollRaises
  <2>1. skipped' = skipped
    BY <1>10 DEF ReceiveGap, ResendChecks, PollRaises
  <2>2. skipped # "no"
    BY <1>10, ChainedFits
    DEF ReceiveGap, ResendChecks, PollRaises, Gap, Reading, Fits, IsItems, ChainInv
  <2> QED BY <2>1, <2>2 DEF ChainInv
<1>11. ASSUME NEW r \in Requests, r # Sync, toServer' = Append(toServer, r),
              UNCHANGED <<skipped, toClient, next_index, cursor, link>>, pc' # "resend"
       PROVE  ChainInv'
  <2>1. /\ Len(toServer') = Len(toServer) + 1 /\ Len(toServer) \in Nat
        /\ toServer'[Len(toServer) + 1] = r
        /\ \A k \in 1..Len(toServer) : toServer'[k] = toServer[k]
        /\ \A k \in 1..Len(toServer') : k = Len(toServer) + 1 \/ k \in 1..Len(toServer)
    BY <1>1, <1>11
  <2> QED BY <1>11, <2>1 DEF ChainInv
<1>12. CASE SendChecks
  <2> DEFINE r == LocationChecks(check_ids)
  <2>1. r \in Requests /\ r # Sync
    BY PacketTypes DEF TypeOK, LocationChecks, Sync
  <2>2. /\ toServer' = Append(toServer, r) /\ pc' # "resend"
        /\ UNCHANGED <<skipped, toClient, next_index, cursor, link>>
    BY <1>12 DEF SendChecks, server, tracker
  <2> HIDE DEF r
  <2> QED BY <1>11, <2>1, <2>2
<1>13. CASE AcceptConnect
  <2> SUFFICES ASSUME skipped' = "no" PROVE ChainInv'
    BY DEF ChainInv
  <2> DEFINE p(m) == ServerPacket("Connected", checked, m)
             r == Received(0, Len(log), "last")
  <2>1. PICK m \in {"more", "last"} :
           toClient' = IF log = <<>> THEN Append(toClient, p(m))
                       ELSE Append(Append(toClient, p(m)), r)
    BY <1>13 DEF AcceptConnect
  <2>2. /\ skipped = "no" /\ cursor' = Len(log) /\ next_index' = next_index /\ pc' = pc
        /\ link # "closed" /\ link' = "joined" /\ toServer # <<>> /\ Head(toServer) = Connect
        /\ toServer' = Tail(toServer)
    BY <1>13 DEF AcceptConnect, client, tracker
  <2>3. Head(toServer) = toServer[1] /\ 1 \in 1..Len(toServer)
    BY <1>1, <2>2
  <2>4. link = "open"
    BY <2>2, <2>3 DEF Joining, TypeOK
  <2>5. cursor = 0 /\ next_index = 0 /\ toServer' = <<>>
    BY <1>1, <2>2, <2>4 DEF Joining
  <2>6. \A k \in 1..Len(toServer') : toServer'[k] # Sync
    BY <2>5
  <2>7. Chained(toClient, 0, 0) /\ Reaches(toClient, 0, 0)
    BY <2>2, <2>5 DEF ChainInv, Reaches
  <2>8. p(m) \in Packets /\ ~IsItems(p(m))
    BY PacketTypes DEF ServerPacket, IsItems, TypeOK
  <2>9. pc' # "resend"
    BY <2>2 DEF ChainInv
  <2> HIDE DEF p
  <2> DEFINE q == Append(toClient, p(m))
  <2>10. q \in Seq(Packets) /\ Chained(q, 0, 0) /\ Reaches(q, 0, 0)
    BY <1>1, <2>7, <2>8, ChainedAppend
  <2> HIDE DEF q
  <2>11. CASE log = <<>>
    <3>1. Len(log) = 0 /\ toClient' = q
      BY <2>1, <2>11 DEF q
    <3> QED BY <2>2, <2>5, <2>6, <2>9, <2>10, <3>1 DEF ChainInv
  <2>12. CASE log # <<>>
    <3>1. 0 < Len(log) /\ toClient' = Append(q, r)
      BY <1>1, <2>1, <2>12, EmptySeq DEF q
    <3>2. r \in Packets /\ IsItems(r) /\ r.index = 0 /\ Upto(r) = Len(log)
      BY <1>1, <1>2, <3>1
    <3> HIDE DEF r
    <3>3. Chained(Append(q, r), 0, Len(log)) /\ Reaches(Append(q, r), 0, Len(log))
      BY <1>1, <2>10, <3>1, <3>2, ChainedAppend
    <3> QED BY <2>2, <2>5, <2>6, <2>9, <3>1, <3>3 DEF ChainInv
  <2> QED BY <2>11, <2>12
<1>14. CASE AnswerSync
  <2> SUFFICES ASSUME skipped' = "no" PROVE ChainInv'
    BY DEF ChainInv
  <2>1. /\ skipped = "no" /\ next_index' = next_index /\ pc' = pc /\ link' = link
        /\ toServer # <<>> /\ Head(toServer) = Sync
        /\ link # "joined" => UNCHANGED <<cursor, toClient>>
    BY <1>14 DEF AnswerSync, client, tracker
  <2>2. Head(toServer) = toServer[1] /\ 1 \in 1..Len(toServer)
    BY <1>1, <2>1
  <2>3. link # "joined"
    BY <2>1, <2>2 DEF ChainInv
  <2> QED BY <2>1, <2>3 DEF ChainInv
<1>15. ASSUME toServer # <<>>, toServer' = Tail(toServer),
              \A k \in 1..Len(toServer) : toServer[k] # Sync
       PROVE  \A k \in 1..Len(toServer') : toServer'[k] # Sync
  <2>1. /\ Len(toServer) \in Nat \ {0} /\ Len(toServer') = Len(toServer) - 1
        /\ \A k \in 1..Len(toServer') : toServer'[k] = toServer[k + 1] /\ k + 1 \in 1..Len(toServer)
    BY <1>1, <1>15
  <2> QED BY <1>15, <2>1
<1>16. CASE RegisterChecks
  <2> SUFFICES ASSUME skipped' = "no" PROVE ChainInv'
    BY DEF ChainInv
  <2> DEFINE p == ServerPacket("RoomUpdate", checked', "last")
  <2>1. /\ skipped = "no" /\ next_index' = next_index /\ pc' = pc /\ link' = link
        /\ cursor' = cursor /\ toServer # <<>> /\ toServer' = Tail(toServer)
        /\ \/ toClient' = toClient
           \/ link = "joined" /\ toClient' = Append(toClient, p)
    BY <1>16 DEF RegisterChecks, client, tracker
  <2>2. checked' \in SUBSET Locations
    BY TypeStep DEF TypeOK
  <2>3. p \in Packets /\ ~IsItems(p)
    BY <2>2, PacketTypes DEF ServerPacket, IsItems
  <2> HIDE DEF p
  <2>4. link = "joined" => \A k \in 1..Len(toServer') : toServer'[k] # Sync
    BY <1>15, <2>1 DEF ChainInv
  <2>5. CASE toClient' = toClient
    BY <2>1, <2>4, <2>5 DEF ChainInv
  <2>6. CASE link = "joined" /\ toClient' = Append(toClient, p)
    <3>1. Chained(toClient', next_index, cursor) /\ Reaches(toClient', next_index, cursor)
      BY <1>1, <2>1, <2>3, <2>6, ChainedAppend DEF ChainInv
    <3> QED BY <2>1, <2>4, <3>1 DEF ChainInv
  <2> QED BY <2>1, <2>5, <2>6
<1>17. CASE SendNewItems
  <2> SUFFICES ASSUME skipped' = "no" PROVE ChainInv'
    BY DEF ChainInv
  <2>1. /\ skipped = "no" /\ next_index' = next_index /\ pc' = pc /\ link' = link
        /\ link = "joined" /\ cursor < Len(log) /\ cursor' = Len(log) /\ toServer' = toServer
    BY <1>17 DEF SendNewItems, client, tracker
  <2>2. Chained(toClient, next_index, cursor) /\ Reaches(toClient, next_index, cursor)
    BY <2>1 DEF ChainInv
  <2>3. Chained(toClient', next_index, Len(log)) /\ Reaches(toClient', next_index, Len(log))
    <3>1. CASE toClient' = Append(toClient, Received(cursor, Len(log), "last"))
      <4> DEFINE p == Received(cursor, Len(log), "last")
      <4>1. p \in Packets /\ IsItems(p) /\ p.index = cursor /\ Upto(p) = Len(log)
        BY <1>1, <1>2, <2>1
      <4> HIDE DEF p
      <4>2. Chained(Append(toClient, p), next_index, Len(log))
            /\ Reaches(Append(toClient, p), next_index, Len(log))
        BY <1>1, <2>1, <2>2, <4>1, ChainedAppend
      <4> QED BY <3>1, <4>2 DEF p
    <3>2. ASSUME NEW k \in (cursor + 1)..(Len(log) - 1),
                 toClient' = Append(Append(toClient, Received(cursor, k, "more")),
                                    Received(k, Len(log), "last"))
          PROVE  Chained(toClient', next_index, Len(log))
                 /\ Reaches(toClient', next_index, Len(log))
      <4> DEFINE p == Received(cursor, k, "more")
                 r == Received(k, Len(log), "last")
                 q == Append(toClient, p)
      <4>1. k \in 0..Len(log) /\ cursor < k /\ k < Len(log) /\ k \in Nat
        BY <1>1
      <4>2. p \in Packets /\ IsItems(p) /\ p.index = cursor /\ Upto(p) = k
        BY <1>1, <1>2, <4>1
      <4>3. r \in Packets /\ IsItems(r) /\ r.index = k /\ Upto(r) = Len(log)
        BY <1>1, <1>2, <4>1
      <4> HIDE DEF p, r
      <4>4. q \in Seq(Packets) /\ Chained(q, next_index, k) /\ Reaches(q, next_index, k)
            /\ next_index <= k
        BY <1>1, <2>1, <2>2, <4>1, <4>2, ChainedAppend
      <4> HIDE DEF q
      <4>5. Chained(Append(q, r), next_index, Len(log))
            /\ Reaches(Append(q, r), next_index, Len(log))
        BY <1>1, <4>1, <4>3, <4>4, ChainedAppend
      <4> QED BY <3>2, <4>5 DEF p, r, q
    <3> QED BY <1>17, <3>1, <3>2 DEF SendNewItems
  <2> QED BY <2>1, <2>3 DEF ChainInv
<1>18. CASE RefuseConnect
  <2> SUFFICES ASSUME skipped' = "no" PROVE ChainInv'
    BY DEF ChainInv
  <2> DEFINE p == ServerPacket("ConnectionRefused", {}, "last")
  <2>1. /\ skipped = "no" /\ next_index' = next_index /\ pc' = pc /\ link' = link
        /\ link # "closed" /\ cursor' = cursor /\ toServer # <<>> /\ Head(toServer) = Connect
        /\ toClient' = Append(toClient, p)
    BY <1>18 DEF RefuseConnect, client, tracker, server
  <2>2. Head(toServer) = toServer[1] /\ 1 \in 1..Len(toServer)
    BY <1>1, <2>1
  <2>3. link = "open" /\ cursor = 0 /\ next_index = 0
    BY <1>1, <2>1, <2>2 DEF Joining, TypeOK
  <2>4. p \in Packets /\ ~IsItems(p)
    BY PacketTypes DEF ServerPacket, IsItems
  <2> HIDE DEF p
  <2>5. Chained(toClient', next_index, cursor)
    <3>1. Chained(toClient, 0, 0) /\ Reaches(toClient, 0, 0)
      BY <2>1, <2>3 DEF ChainInv, Reaches
    <3> QED BY <1>1, <2>1, <2>3, <2>4, <3>1, ChainedAppend
  <2> QED BY <2>1, <2>3, <2>5 DEF ChainInv
<1>19. CASE Drop
  <2>1. PICK k \in 0..Len(toClient) : toClient' = SubSeq(toClient, 1, k)
    BY <1>19 DEF Drop
  <2>2. UNCHANGED <<skipped, next_index, cursor, pc>> /\ link' = "closed"
    BY <1>19 DEF Drop, client, tracker
  <2>3. skipped = "no" => Chained(toClient', next_index, cursor)
    BY <1>1, <2>1, ChainedPrefix DEF ChainInv
  <2> QED BY <2>2, <2>3 DEF ChainInv
<1>20. ASSUME UNCHANGED <<skipped, next_index, cursor, link, toClient, toServer>>,
              pc' # "resend" \/ pc' = pc
       PROVE  ChainInv'
  BY <1>20 DEF ChainInv
<1>21. CASE Prime \/ PollNothing \/ ApplyItem \/ ItemsApplied \/ PollChecks
  <2>1. UNCHANGED <<skipped, next_index, cursor, link, toClient, toServer>>
    BY <1>21 DEF Prime, PollNothing, ApplyItem, ItemsApplied, PollChecks, server, network, tracker
  <2>2. pc' # "resend" \/ pc' = pc
    BY <1>21 DEF Prime, PollNothing, ApplyItem, ItemsApplied, PollChecks
  <2> QED BY <1>20, <2>1, <2>2
<1>22. CASE (\E i \in Items : Grant(i)) \/ (\E l \in Locations : Achieve(l)) \/ UNCHANGED vars
  <2>1. UNCHANGED <<skipped, next_index, cursor, link, toClient, toServer, pc>>
    BY <1>22 DEF Grant, Achieve, vars, server, network, tracker, client
  <2> QED BY <1>20, <2>1
<1> QED
  BY <1>4, <1>5, <1>7, <1>8, <1>9, <1>10, <1>12, <1>13, <1>14, <1>16, <1>17, <1>18,
     <1>19, <1>21, <1>22
  DEF Next, Process, Server, Environment, Refused, SendRaises, Stop

(* Each item of the inventory has had its effect at least once whenever     *)
(* poll()'s list is applied, and exactly once as long as connect() has      *)
(* thrown nothing away: losses, splits, drops and restarts never grant an   *)
(* item a second time in one process.                                      *)
THEOREM GrantedOnceTheorem == Spec => []GrantedOnceUnlessSkipped
<1> DEFINE OnceInv == Joining /\ ChainInv /\ PollInv /\ (skipped = "no" => ExactlyOnce)
<1>1. Init => OnceInv
  <2>1. Money[<<>>] = 0 /\ \A i \in Items : CopiesOf(i)[<<>>] = 0
    BY MeasureFacts, MeasureTypes
  <2>2. Init => ExactlyOnce /\ PollInv
    BY <2>1 DEF Init, PollInv, NothingLeft, Continues, Bundled, ExactlyOnce
  <2>3. Init => Joining /\ ChainInv
    BY DEF Init, Joining, ChainInv, Chained, Reaches
  <2> QED BY <2>2, <2>3
<1>2. IInv /\ OnceInv /\ [Next]_vars => OnceInv'
  <2> SUFFICES ASSUME IInv, OnceInv, [Next]_vars PROVE OnceInv'
    OBVIOUS
  <2>1. Joining' /\ ChainInv' /\ PollInv'
    BY JoiningStep, ChainStep, PollInvStep
  <2>2. skipped = "no" => ExactlyOnce'
    <3>1. skipped = "no" /\ ReceiveItems => Head(toClient).index = next_index
      BY ChainedFits DEF ReceiveItems, Reading, IsItems
    <3> QED BY <3>1, EffectsStep
  <2>3. Exit => ExactlyOnce'
    BY ExitEffects
  <2>4. skipped' = "no" => skipped = "no" \/ Exit
    <3>1. Connected => skipped = "no"
      BY DEF Connected, Joining
    <3>2. Connected \/ Exit \/ skipped' = skipped
      BY DEF Next, Process, Server, Environment, Refused, SendRaises, Stop, Start,
             Prime, PollNothing, ReceiveItems, ReceiveGap, ResendChecks, PollRaises,
             ReceiveRoomUpdate, ApplyItem, ItemsApplied, PollChecks, SendChecks,
             AcceptConnect, AnswerSync, RegisterChecks, SendNewItems, RefuseConnect,
             Drop, Grant, Achieve, vars, client
    <3> QED BY <3>1, <3>2
  <2> QED BY <2>1, <2>2, <2>3, <2>4
<1>3. IInv /\ OnceInv => (skipped = "no" => GrantedExactlyOnce)
  <2> SUFFICES ASSUME IInv, OnceInv, skipped = "no", Settled
               PROVE  /\ ap_money_total = MoneyIn(inventory)
                      /\ \A i \in Items : Price[i] = 0 =>
                            Copies(i, applied_pending) = Copies(i, inventory)
    BY DEF GrantedExactlyOnce
  <2>1. /\ new_items = <<>> /\ inventory \in Seq(Items)
        /\ applied_pending \in Seq(Items) /\ ap_money_total \in Nat
    BY DEF Settled, PollInv, NothingLeft, IInv, TypeOK
  <2>2. /\ Money[new_items] = 0
        /\ \A i \in Items : /\ CopiesOf(i)[new_items] = 0
                            /\ CopiesOf(i)[applied_pending] \in Nat
    BY <2>1, MeasureFacts, MeasureTypes
  <2>3. /\ MoneyIn(inventory) = Money[inventory]
        /\ \A i \in Items : /\ Copies(i, inventory) = CopiesOf(i)[inventory]
                            /\ Copies(i, applied_pending) = CopiesOf(i)[applied_pending]
    BY <2>1 DEF Money, CopiesOf
  <2> QED BY <2>1, <2>2, <2>3 DEF ExactlyOnce
<1> HIDE DEF OnceInv
<1>4. Spec => [](IInv /\ OnceInv)
  BY <1>1, <1>2, IInvInit, IInvStep, PTL DEF Spec
<1> QED
  BY <1>3, <1>4, NothingUnderGrantedTheorem, PTL DEF GrantedOnceUnlessSkipped
=============================================================================
