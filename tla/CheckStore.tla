----------------------------- MODULE CheckStore -----------------------------
(***************************************************************************)
(* The application service (application/client_service.py) over the SQLite *)
(* store (adapters/storage/sqlite_event_store.py): run() loads what the    *)
(* store remembers, connects, pushes the desired state to the game and     *)
(* then handles game events one at a time.  Every await is a step of its   *)
(* own, and the process may end before any of them: nothing in the loop    *)
(* catches an exception of a port.  The store survives, the memory does    *)
(* not.                                                                    *)
(*                                                                         *)
(* Of the desired state only the checked locations are kept; the received  *)
(* items are module ItemStore, as run() never receives any.  Snapshots of  *)
(* the desired state and the goal flag are written or read by nobody.      *)
(***************************************************************************)
EXTENDS Naturals, Sequences, Functions

CONSTANTS
    Locations,   \* location ids
    Goal,        \* the goal_completed event
    MaxEvents,   \* bound: events the game emits
    MaxStarts    \* bound: times the service is started

ASSUME GoalAssumption == Goal \notin Locations
ASSUME BoundsAssumption == MaxEvents \in Nat /\ MaxStarts \in Nat

VARIABLES
    told,               \* server: the checks it was sent, the goal included
    events, emitted,    \* game: events not yet yielded; events so far
    desired,            \* game: the checks of the desired state it was given
    rows,               \* location_checks: absent, unsent or sent
    pc, starts,         \* where run() is; times it was started
    checked_locations,  \* ClientState.checked_locations
    current             \* the location being processed, in a set

game == <<events, emitted, desired>>
service == <<pc, starts, checked_locations, current>>
vars == <<told, game, rows, service>>
-----------------------------------------------------------------------------
Recorded == {l \in Locations : rows[l] # "absent"}
InLoop == pc \in {"loop", "record", "send", "mark", "reconcile", "goal"}

TypeOK ==
    /\ told \in SUBSET (Locations \cup {Goal})
    /\ events \in Seq(Locations \cup {Goal})
    /\ emitted \in 0..MaxEvents
    /\ desired \in SUBSET Locations
    /\ rows \in [Locations -> {"absent", "unsent", "sent"}]
    /\ pc \in {"down", "connect", "reconcile", "loop", "record", "send",
               "mark", "goal"}
    /\ starts \in 0..MaxStarts
    /\ checked_locations \in SUBSET Locations
    /\ current \in SUBSET Locations

Init ==
    /\ told = {}
    /\ events = <<>> /\ emitted = 0 /\ desired = {}
    /\ rows = [l \in Locations |-> "absent"]
    /\ pc = "down" /\ starts = 0
    /\ checked_locations = {} /\ current = {}
-----------------------------------------------------------------------------
Loaded_Sent ==                         \* mutant: WHERE sent_to_ap = 1
    {l \in Locations : rows[l] = "sent"}
Loaded == Recorded

\* run(): load_client_state, then the connections.
Start ==
    /\ pc = "down"
    /\ starts < MaxStarts
    /\ starts' = starts + 1
    /\ checked_locations' = Loaded
    /\ pc' = "connect"
    /\ UNCHANGED <<told, game, rows, current>>

\* Both servers are connected; _resync_items does nothing.
Connect ==
    /\ pc = "connect"
    /\ pc' = "reconcile"
    /\ UNCHANGED <<told, game, rows, starts, checked_locations, current>>

\* reconcile_all: the game is given the desired state.
Reconcile ==
    /\ pc = "reconcile"
    /\ desired' = checked_locations
    /\ current' = {}
    /\ pc' = "loop"
    /\ UNCHANGED <<told, events, emitted, rows, starts, checked_locations>>

Known_TestedLast(l) ==                 \* mutant: tested after it was added
    l \in checked_locations'
Known(l) == l \in checked_locations

\* _handle_game_event: a check that is known is dropped, a new one is put
\* into memory before it is put into the store.
HandleCheck ==
    LET l == Head(events) IN
    /\ pc = "loop"
    /\ events # <<>>
    /\ l # Goal
    /\ checked_locations' = checked_locations \cup {l}
    /\ events' = Tail(events)
    /\ IF Known(l) THEN pc' = "loop" /\ UNCHANGED current
                   ELSE pc' = "record" /\ current' = {l}
    /\ UNCHANGED <<told, emitted, desired, rows, starts>>

HandleGoal ==
    /\ pc = "loop"
    /\ events # <<>>
    /\ Head(events) = Goal
    /\ events' = Tail(events)
    /\ pc' = "goal"
    /\ UNCHANGED <<told, emitted, desired, rows, starts, checked_locations,
                   current>>

SendGoal ==
    /\ pc = "goal"
    /\ told' = told \cup {Goal}
    /\ pc' = "loop"
    /\ UNCHANGED <<game, rows, starts, checked_locations, current>>

Row_Kept == rows                       \* mutant: the insert is not committed
Row == [l \in Locations |->            \* INSERT OR IGNORE ... sent_to_ap = 0
          IF l \in current /\ rows[l] = "absent" THEN "unsent" ELSE rows[l]]

RecordCheck ==
    /\ pc = "record"
    /\ rows' = Row
    /\ pc' = "send"
    /\ UNCHANGED <<told, game, starts, checked_locations, current>>

SendCheck ==
    /\ pc = "send"
    /\ told' = told \cup current
    /\ pc' = "mark"
    /\ UNCHANGED <<game, rows, starts, checked_locations, current>>

Marked_All == [l \in Locations |->     \* mutant: UPDATE without a WHERE
          IF rows[l] # "absent" THEN "sent" ELSE rows[l]]
Marked == [l \in Locations |->
          IF l \in current /\ rows[l] # "absent" THEN "sent" ELSE rows[l]]

MarkSent ==
    /\ pc = "mark"
    /\ rows' = Marked
    /\ pc' = "reconcile"
    /\ UNCHANGED <<told, game, starts, checked_locations, current>>

\* A kill, a cancel, or an exception of a port: run() ends, and with it the
\* memory and the events it had not yet seen.
Stop ==
    /\ pc # "down"
    /\ pc' = "down"
    /\ checked_locations' = {}
    /\ current' = {}
    /\ events' = <<>>
    /\ UNCHANGED <<told, emitted, desired, rows, starts>>

\* The game emits an event: a check may be achieved again (a race won twice).
Emit(e) ==
    /\ InLoop
    /\ emitted < MaxEvents
    /\ emitted' = emitted + 1
    /\ events' = Append(events, e)
    /\ UNCHANGED <<told, desired, rows, service>>
-----------------------------------------------------------------------------
Service == \/ Connect \/ Reconcile \/ HandleCheck \/ HandleGoal \/ SendGoal
           \/ RecordCheck \/ SendCheck \/ MarkSent

Next == Start \/ Stop \/ Service \/ \E e \in Locations \cup {Goal} : Emit(e)

Spec == Init /\ [][Next]_vars

\* The event loop of a running service keeps running.
FairSpec == Spec /\ WF_vars(Service)
-----------------------------------------------------------------------------
(* Whatever step the process ended at, a row that says sent_to_ap is true:  *)
(* the server has the check (send before mark, _on_location_checked).       *)
SentMarkIsTrue == \A l \in Locations : rows[l] = "sent" => l \in told

(* Between two events the service remembers exactly what the store would    *)
(* give it after a restart: no crash makes it forget a check or repeat one. *)
MemoryIsDurable == pc = "loop" => checked_locations = Recorded

(* No restart takes a checked location back from the game: what was in a    *)
(* desired state the game was given is in every later one.                  *)
DesiredNeverShrinks == [][desired \subseteq desired']_vars

(* A check that is new to the store reaches the server if the service runs  *)
(* on, however many known checks are ahead of it in the queue.              *)
NewChecksArrive ==
    \A l \in Locations :
       (l \in Range(events) /\ l \notin Recorded) ~>
          (l \in told \/ pc = "down")
=============================================================================
