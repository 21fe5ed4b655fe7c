------------------------------- MODULE Runner -------------------------------
(***************************************************************************)
(* The client players run (client/mc3ap/runner.py): one process that talks *)
(* to an Archipelago server over a websocket (ap_client_adapter.py), keeps *)
(* the received-item tracker (ap_protocol.py), hands every new item to the *)
(* ItemApplier and sends the checks it detects in the game.                *)
(*                                                                         *)
(* A network message is a list of packets.  toClient holds the packets of  *)
(* all messages in order; packet.end = "more" tells that the next one is   *)
(* of the same message.  The server, the link and the game are external.   *)
(***************************************************************************)
EXTENDS Naturals, Sequences, FiniteSetsExt, Functions

CONSTANTS
    Items,       \* item ids
    Price,       \* the money an item is worth, 0 for any other item
    Locations,   \* the AP locations of the checks the game can produce
    MaxGrants,   \* bound: items the multiworld ever sends to this slot
    MaxStarts    \* bound: client processes started

ASSUME PriceAssumption == Price \in [Items -> Nat]
ASSUME BoundsAssumption == MaxGrants \in Nat /\ MaxStarts \in Nat

VARIABLES
    \* Archipelago server
    log,               \* every item sent to this slot, in order
    cursor,            \* how much of log this connection has been told
    checked,           \* locations the server knows to be checked
    \* link
    link,              \* closed, open, or joined: Connect was accepted
    toClient, toServer,
    \* game
    done,              \* checks the player has achieved
    \* client process
    pc,                \* where run_client is
    next_index, inventory,           \* ReceivedItemsTracker
    new_items,                       \* the list poll() is building / returned
    ap_money_total, applied_pending, \* ItemApplier
    sent_checks, checked_locations,  \* ArchipelagoClient
    seen,                            \* the watcher's baseline
    check_ids,                       \* checks of this iteration, not sent yet
    starts,            \* client processes started so far
    primed,            \* history: what the watcher was primed with
    skipped            \* history: connect() has thrown items away

server == <<log, cursor, checked>>
network == <<link, toClient, toServer>>
tracker == <<next_index, inventory>>
applier == <<ap_money_total, applied_pending>>
checks == <<sent_checks, checked_locations, seen, check_ids, primed>>
vars == <<server, network, done, pc, tracker, new_items, applier, checks,
          starts, skipped>>
-----------------------------------------------------------------------------
Packets == [cmd : {"Connected", "ConnectionRefused", "ReceivedItems",
                   "RoomUpdate"},
            index : Nat, items : Seq(Items), locations : SUBSET Locations,
            end : {"more", "last"}]

Requests == [cmd : {"Connect", "Sync", "LocationChecks"},
             locations : SUBSET Locations]

Phases == {"down", "connect", "prime", "poll", "batch", "resend", "apply",
           "check", "send"}

TypeOK ==
    /\ log \in Seq(Items)
    /\ cursor \in 0..Len(log)
    /\ checked \in SUBSET Locations
    /\ link \in {"closed", "open", "joined"}
    /\ toClient \in Seq(Packets)
    /\ toServer \in Seq(Requests)
    /\ done \in SUBSET Locations
    /\ pc \in Phases
    /\ next_index \in Nat
    /\ inventory \in Seq(Items)
    /\ new_items \in Seq(Items)
    /\ ap_money_total \in Nat
    /\ applied_pending \in Seq(Items)
    /\ sent_checks \in SUBSET Locations
    /\ checked_locations \in SUBSET Locations
    /\ seen \in SUBSET Locations
    /\ check_ids \in SUBSET Locations
    /\ primed \in SUBSET Locations
    /\ skipped \in {"no", "yes"}
    /\ starts \in Nat

\* The packets the server builds and the requests the client builds.
Received(from, upto, end) ==
    [cmd |-> "ReceivedItems", index |-> from,
     items |-> SubSeq(log, from + 1, upto), locations |-> {}, end |-> end]
ServerPacket(cmd, locations, end) ==
    [cmd |-> cmd, index |-> 0, items |-> <<>>, locations |-> locations,
     end |-> end]
Connect == [cmd |-> "Connect", locations |-> {}]
Sync == [cmd |-> "Sync", locations |-> {}]
LocationChecks(S) == [cmd |-> "LocationChecks", locations |-> S]

Init ==
    /\ log = <<>> /\ cursor = 0 /\ checked = {}
    /\ link = "closed" /\ toClient = <<>> /\ toServer = <<>>
    /\ done = {}
    /\ pc = "down" /\ starts = 0
    /\ next_index = 0 /\ inventory = <<>> /\ new_items = <<>>
    /\ ap_money_total = 0 /\ applied_pending = <<>>
    /\ sent_checks = {} /\ checked_locations = {}
    /\ seen = {} /\ check_ids = {} /\ primed = {}
    /\ skipped = "no"
-----------------------------------------------------------------------------
(* The process: start, connect, prime the watcher, end.                    *)

\* run_client opens the websocket, waits for RoomInfo and sends Connect.
Start ==
    /\ pc = "down"
    /\ starts < MaxStarts
    /\ starts' = starts + 1
    /\ pc' = "connect"
    /\ link' = "open"
    /\ toClient' = <<>>
    /\ toServer' = <<Connect>>
    /\ cursor' = 0
    /\ UNCHANGED <<log, checked, done, tracker, new_items, applier, checks,
                   skipped>>

\* The process ends; everything it kept is in memory only.
Exit ==
    /\ pc' = "down"
    /\ link' = "closed"
    /\ toClient' = <<>>
    /\ next_index' = 0 /\ inventory' = <<>> /\ new_items' = <<>>
    /\ ap_money_total' = 0 /\ applied_pending' = <<>>
    /\ sent_checks' = {} /\ checked_locations' = {}
    /\ seen' = {} /\ check_ids' = {} /\ primed' = {} /\ skipped' = "no"
    /\ UNCHANGED <<log, cursor, checked, toServer, done, starts>>

\* The rest of the message at the head of the queue is not looked at.
DiscardMessage ==
    \E k \in 1..Len(toClient) :
       /\ toClient[k].end = "last"
       /\ \A j \in 1..(k - 1) : toClient[j].end = "more"
       /\ toClient' = SubSeq(toClient, k + 1, Len(toClient))

\* connect() returns at Connected: what follows in that message is not read.
Connected ==
    /\ pc = "connect"
    /\ toClient # <<>>
    /\ Head(toClient).cmd = "Connected"
    /\ checked_locations' = Head(toClient).locations
    /\ DiscardMessage
    /\ skipped' = IF Head(toClient).end = "more" THEN "yes" ELSE "no"
    /\ pc' = "prime"
    /\ UNCHANGED <<server, link, toServer, done, tracker, new_items, applier,
                   sent_checks, seen, check_ids, primed, starts>>

\* ConnectionRefused raises out of run_client.
Refused ==
    /\ pc = "connect"
    /\ toClient # <<>>
    /\ Head(toClient).cmd = "ConnectionRefused"
    /\ Exit

\* MC3ApiRuntime.__init__ polls once so that old progress fires no check.
Prime ==
    /\ pc = "prime"
    /\ seen' = done
    /\ primed' = done
    /\ pc' = "poll"
    /\ UNCHANGED <<server, network, done, tracker, new_items, applier,
                   sent_checks, checked_locations, check_ids, starts, skipped>>

\* Ctrl-C, a kill, or an exception none of the handlers takes.
Stop ==
    /\ pc # "down"
    /\ Exit
-----------------------------------------------------------------------------
(* ArchipelagoClient.poll: one message, packet by packet.                  *)

PollNothing_BlocksWhenQuiet == FALSE   \* mutant: recv() without a timeout

\* The timeout passes, or recv() raises and one_iteration swallows it.
PollNothing ==
    /\ pc = "poll"
    /\ pc' = "check"
    /\ UNCHANGED <<server, network, done, tracker, new_items, applier,
                   checks, starts, skipped>>

Reading == pc \in {"poll", "batch"} /\ toClient # <<>>
AfterPacket(packet) == IF packet.end = "more" THEN "batch" ELSE "apply"

\* ReceivedItemsTracker.apply: what fits, and what it makes of the inventory
\* and of poll()'s list.
Fits_AnyIndex(packet) == TRUE          \* mutant: the index is not checked
Fits(packet) == packet.index \in {0, next_index}
Rebuilt_KeepsOld(packet) ==            \* mutant: index 0 does not clear
    inventory \o packet.items
Rebuilt(packet) == IF packet.index = 0 THEN packet.items
                                       ELSE inventory \o packet.items
Collected_Inventory(packet) ==         \* mutant: returns the inventory
    new_items \o Rebuilt(packet)
Collected(packet) == new_items \o packet.items

ReceiveItems ==
    LET packet == Head(toClient) IN
    /\ Reading
    /\ packet.cmd = "ReceivedItems"
    /\ Fits(packet)
    /\ inventory' = Rebuilt(packet)
    /\ next_index' = packet.index + Len(packet.items)
    /\ new_items' = Collected(packet)
    /\ toClient' = Tail(toClient)
    /\ pc' = AfterPacket(packet)
    /\ UNCHANGED <<server, link, toServer, done, applier, checks, starts,
                   skipped>>

Gap ==
    /\ Reading
    /\ Head(toClient).cmd = "ReceivedItems"
    /\ ~Fits(Head(toClient))

Asked_Nothing == toServer              \* mutant: the gap is ignored
Asked == Append(toServer, Sync)

\* ReceivedItems that does not fit: send Sync, the checks come next.
ReceiveGap ==
    /\ Gap
    /\ link # "closed"
    /\ toServer' = Asked
    /\ pc' = "resend"
    /\ UNCHANGED <<server, link, toClient, done, tracker, new_items, applier,
                   checks, starts, skipped>>

\* resend_all_checks, then on to the next packet of the message.
ResendChecks ==
    /\ pc = "resend"
    /\ sent_checks = {} \/ link # "closed"
    /\ toServer' = IF sent_checks = {} THEN toServer
                   ELSE Append(toServer, LocationChecks(sent_checks))
    /\ toClient' = Tail(toClient)
    /\ pc' = AfterPacket(Head(toClient))
    /\ UNCHANGED <<server, link, done, tracker, new_items, applier, checks,
                   starts, skipped>>

\* A send on a closed link raises out of poll(): the rest of the message and
\* the new items collected so far are gone, and one_iteration goes on.
PollRaises ==
    /\ link = "closed"
    /\ Gap \/ (pc = "resend" /\ sent_checks # {})
    /\ new_items' = <<>>
    /\ DiscardMessage
    /\ pc' = "check"
    /\ UNCHANGED <<server, link, toServer, done, tracker, applier, checks,
                   starts, skipped>>

ReceiveRoomUpdate ==
    /\ Reading
    /\ Head(toClient).cmd = "RoomUpdate"
    /\ checked_locations' = Head(toClient).locations
    /\ toClient' = Tail(toClient)
    /\ pc' = AfterPacket(Head(toClient))
    /\ UNCHANGED <<server, link, toServer, done, tracker, new_items, applier,
                   sent_checks, seen, check_ids, primed, starts, skipped>>
-----------------------------------------------------------------------------
(* one_iteration after poll(): apply the items, detect and send checks.    *)

Credited(item) == ap_money_total + Price[item]

\* ItemApplier.apply.  The wallet write behind apply_money_total is module
\* GameWatcher.
ApplyItem ==
    LET item == Head(new_items) IN
    /\ pc = "apply"
    /\ new_items # <<>>
    /\ new_items' = Tail(new_items)
    /\ ap_money_total' = Credited(item)
    /\ applied_pending' = IF Price[item] > 0 THEN applied_pending
                          ELSE Append(applied_pending, item)
    /\ UNCHANGED <<server, network, done, pc, tracker, checks, starts,
                   skipped>>

ItemsApplied ==
    /\ pc = "apply"
    /\ new_items = <<>>
    /\ pc' = "check"
    /\ UNCHANGED <<server, network, done, tracker, new_items, applier,
                   checks, starts, skipped>>

Detected_BaselineFirst == done \ seen' \* mutant: moves the baseline first
Detected == done \ seen

\* runtime.poll_check_ids: what the game gained since the last poll.
PollChecks ==
    /\ pc = "check"
    /\ seen' = done
    /\ check_ids' = Detected
    /\ pc' = IF check_ids' = {} THEN "poll" ELSE "send"
    /\ UNCHANGED <<server, network, done, tracker, new_items, applier,
                   sent_checks, checked_locations, primed, starts, skipped>>

\* send_location_checks remembers the checks once the send has returned.
SendChecks ==
    /\ pc = "send"
    /\ link # "closed"
    /\ toServer' = Append(toServer, LocationChecks(check_ids))
    /\ sent_checks' = sent_checks \cup check_ids
    /\ check_ids' = {}
    /\ pc' = "poll"
    /\ UNCHANGED <<server, link, toClient, done, tracker, new_items, applier,
                   checked_locations, seen, primed, starts, skipped>>

\* Nothing catches a failing send: the loop ends through its finally.
SendRaises ==
    /\ pc = "send"
    /\ link = "closed"
    /\ Exit
-----------------------------------------------------------------------------
(* The game, the link and the server.                                      *)

client == <<pc, tracker, new_items, applier, checks, starts, skipped>>

Achieve(l) ==
    /\ l \notin done
    /\ done' = done \cup {l}
    /\ UNCHANGED <<server, network, client>>

\* The link breaks at a message boundary; what was on its way is lost.
Drop ==
    /\ link # "closed"
    /\ link' = "closed"
    /\ toServer' = <<>>
    /\ \E k \in 0..Len(toClient) :
          /\ k = 0 => pc \notin {"batch", "resend"}
          /\ k > 0 => toClient[k].end = "last"
          /\ toClient' = SubSeq(toClient, 1, k)
    /\ UNCHANGED <<log, cursor, checked, done, client>>

Grant(i) ==
    /\ Len(log) < MaxGrants
    /\ log' = Append(log, i)
    /\ UNCHANGED <<cursor, checked, network, done, client>>

\* Connected and the inventory so far, in one message or in two.
AcceptConnect ==
    /\ link # "closed"
    /\ toServer # <<>>
    /\ Head(toServer) = Connect
    /\ toServer' = Tail(toServer)
    /\ link' = "joined"
    /\ cursor' = Len(log)
    /\ \E end \in {"more", "last"} :
          /\ end = "more" => log # <<>>
          /\ LET accepted == Append(toClient,
                                ServerPacket("Connected", checked, end))
             IN toClient' = IF log = <<>> THEN accepted
                            ELSE Append(accepted, Received(0, Len(log), "last"))
    /\ UNCHANGED <<log, checked, done, client>>

RefuseConnect ==
    /\ link # "closed"
    /\ toServer # <<>>
    /\ Head(toServer) = Connect
    /\ toServer' = Tail(toServer)
    /\ toClient' = Append(toClient,
                          ServerPacket("ConnectionRefused", {}, "last"))
    /\ UNCHANGED <<server, link, done, client>>

\* Sync is answered with the whole inventory.
AnswerSync ==
    /\ toServer # <<>>
    /\ Head(toServer) = Sync
    /\ toServer' = Tail(toServer)
    /\ IF link = "joined"
       THEN /\ cursor' = Len(log)
            /\ toClient' = Append(toClient, Received(0, Len(log), "last"))
       ELSE UNCHANGED <<cursor, toClient>>
    /\ UNCHANGED <<log, checked, link, done, client>>

\* LocationChecks may repeat locations; a RoomUpdate tells of new ones.
RegisterChecks ==
    /\ toServer # <<>>
    /\ Head(toServer).cmd = "LocationChecks"
    /\ toServer' = Tail(toServer)
    /\ checked' = checked \cup Head(toServer).locations
    /\ toClient' = IF link = "joined" /\ checked' # checked
                   THEN Append(toClient,
                               ServerPacket("RoomUpdate", checked', "last"))
                   ELSE toClient
    /\ UNCHANGED <<log, cursor, link, done, client>>

\* Items the connection has not been told of, in one packet or in a message
\* of two.
SendNewItems ==
    /\ link = "joined"
    /\ cursor < Len(log)
    /\ cursor' = Len(log)
    /\ \/ toClient' = Append(toClient, Received(cursor, Len(log), "last"))
       \/ \E k \in (cursor + 1)..(Len(log) - 1) :
             toClient' = Append(Append(toClient, Received(cursor, k, "more")),
                                Received(k, Len(log), "last"))
    /\ UNCHANGED <<log, checked, link, toServer, done, client>>
-----------------------------------------------------------------------------
Process ==
    \/ Connected \/ Refused \/ Prime
    \/ PollNothing \/ ReceiveItems \/ ReceiveGap \/ ResendChecks
    \/ PollRaises \/ ReceiveRoomUpdate
    \/ ApplyItem \/ ItemsApplied \/ PollChecks \/ SendChecks \/ SendRaises

Server == AcceptConnect \/ AnswerSync \/ RegisterChecks \/ SendNewItems

Environment ==
    \/ RefuseConnect \/ Drop
    \/ \E i \in Items : Grant(i)
    \/ \E l \in Locations : Achieve(l)

Next == Start \/ Stop \/ Process \/ Server \/ Environment

Spec == Init /\ [][Next]_vars

\* The loop keeps running, the server keeps serving, and a message on its
\* way is read by some poll although any single poll may time out first.
Fairness ==
    /\ WF_vars(Process)
    /\ WF_vars(Server)
    /\ SF_vars(ReceiveItems \/ ReceiveGap \/ ReceiveRoomUpdate)

FairSpec == Spec /\ Fairness
-----------------------------------------------------------------------------
InFlight == UNION {r.locations : r \in Range(toServer)}
InSession == pc \notin {"down", "connect", "prime"}
Healthy == InSession /\ link # "closed"
Settled == pc \in {"poll", "check", "send"}

MoneyIn(s) == SumFunction([k \in DOMAIN s |-> Price[s[k]]])
Copies(i, s) == Cardinality({k \in DOMAIN s : s[k] = i})

(* Whatever was bundled, split, lost or asked for again, the inventory the  *)
(* tracker keeps is the beginning of what the server sent, with no hole and *)
(* no item twice, and next_index is its length (ReceivedItemsTracker).      *)
InventoryIsPrefix ==
    /\ next_index = Len(inventory)
    /\ next_index <= Len(log)
    /\ \A k \in 1..next_index : inventory[k] = log[k]

(* The tracker implements ItemDelivery: although a full replacement (index  *)
(* 0) clears the inventory, no step of one process forgets an item it had,  *)
(* and every step leaves it with a beginning of the server's log.           *)
Delivery == INSTANCE ItemDelivery WITH up <- pc # "down"
DeliverySpec == Delivery!Spec

NothingUnderGranted ==
    Settled =>
       /\ ap_money_total >= MoneyIn(inventory)
       /\ \A i \in Items : Price[i] = 0 =>
             Copies(i, applied_pending) >= Copies(i, inventory)

(* "money ledger: replay does not double money": once the items of a poll   *)
(* are applied, each inventory item has had its effect exactly once.        *)
GrantedExactlyOnce ==
    Settled =>
       /\ ap_money_total = MoneyIn(inventory)
       /\ \A i \in Items : Price[i] = 0 =>
             Copies(i, applied_pending) = Copies(i, inventory)

(* When poll() has returned and its items are applied, every item of the    *)
(* inventory has had its effect at least once: no failure between tracker   *)
(* and applier loses an item the tracker will not ask for again.  And as    *)
(* long as connect() has thrown no items away, the index rules alone keep   *)
(* every effect from happening twice.                                      *)
GrantedOnceUnlessSkipped ==
    /\ NothingUnderGranted
    /\ skipped = "no" => GrantedExactlyOnce

(* While the link is up, a check achieved since the watcher was primed is   *)
(* somewhere on its way: known to the server, in flight, taken from the     *)
(* watcher and about to be sent, or still to be seen by the watcher.        *)
SessionChecksAccounted ==
    Healthy =>
       done \subseteq primed \cup checked \cup InFlight \cup check_ids
                         \cup (done \ seen)

(* Once a packet that reaches item n is on its way to the loop, the item is *)
(* received while the link stays up, be it over a gap and a Sync.           *)
Announced(n) ==
    \E k \in 1..Len(toClient) :
       /\ toClient[k].cmd = "ReceivedItems"
       /\ toClient[k].index + Len(toClient[k].items) >= n
AnnouncedItemsArrive ==
    \A n \in 1..MaxGrants :
       (Healthy /\ Announced(n)) ~> (next_index >= n \/ ~Healthy)

(* A check achieved in a session reaches the server while the link is up.   *)
ChecksArrive ==
    \A l \in Locations :
       (Healthy /\ l \in done \ primed) ~> (l \in checked \/ ~Healthy)
=============================================================================
