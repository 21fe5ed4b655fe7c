------------------------------ MODULE CheckProofs ------------------------------
(***************************************************************************)
(* How a check is noticed and how it is kept.  CheckStore for every set of *)
(* locations, any number of events and any number of starts: what the sent *)
(* mark, the memory of the service and the desired state may be relied on  *)
(* for.  GameWatcher for all routes, all sets of cities, every prize and   *)
(* price and any number of moves: what a poll reports.                     *)
(***************************************************************************)
EXTENDS CheckStore, GameWatcher, Arithmetic, SequenceTheorems,
        FiniteSetTheorems, TLAPS

\* What the steps of _on_location_checked know of the location at hand.
AtHand ==
    /\ pc = "send" => current \subseteq Recorded
    /\ pc = "mark" => current \subseteq Recorded \cap told

\* The memory may be ahead of the store by that location, and only then.
MemoryMatches ==
    pc # "down" =>
       checked_locations = Recorded \cup (IF pc = "record" THEN current
                                                           ELSE {})

\* Whatever the game was given is in the store.
DesiredIsRecorded == desired \subseteq Recorded

IInv == /\ TypeOK
        /\ SentMarkIsTrue
        /\ AtHand
        /\ MemoryMatches
        /\ DesiredIsRecorded
-----------------------------------------------------------------------------
(* The types hold initially and are kept by every step.                    *)
LEMMA TypeInit == Init => TypeOK
BY BoundsAssumption, EmptySeq DEF Init, TypeOK

(* Handling an event takes it from the queue, emitting one appends it: the  *)
(* queue stays a sequence of locations and the goal.                        *)
LEMMA TypeStep == TypeOK /\ [Next]_vars => TypeOK'
<1> SUFFICES ASSUME TypeOK, [Next]_vars PROVE TypeOK'
  OBVIOUS
<1> USE BoundsAssumption DEF TypeOK
<1>1. CASE Start
  BY <1>1 DEF Start, Loaded, Recorded, game
<1>2. CASE Stop
  BY <1>2, EmptySeq DEF Stop
<1>3. CASE Connect
  BY <1>3 DEF Connect, game
<1>4. CASE Reconcile
  BY <1>4 DEF Reconcile
<1>5. CASE HandleCheck
  <2>1. events \in Seq(Locations \cup {Goal}) /\ events # <<>>
    BY <1>5 DEF HandleCheck
  <2>2. /\ Head(events) \in Locations \cup {Goal}
        /\ Tail(events) \in Seq(Locations \cup {Goal})
    BY <2>1, HeadTailProperties
  <2>3. Head(events) \in Locations
    BY <1>5, <2>2 DEF HandleCheck
  <2> QED
    BY <1>5, <2>2, <2>3 DEF HandleCheck, Known
<1>6. CASE HandleGoal
  <2>1. Tail(events) \in Seq(Locations \cup {Goal})
    BY <1>6, HeadTailProperties DEF HandleGoal
  <2> QED
    BY <1>6, <2>1 DEF HandleGoal
<1>7. CASE SendGoal
  BY <1>7 DEF SendGoal, game
<1>8. CASE RecordCheck
  BY <1>8 DEF RecordCheck, Row, game
<1>9. CASE SendCheck
  BY <1>9 DEF SendCheck, game
<1>10. CASE MarkSent
  BY <1>10 DEF MarkSent, Marked, game
<1>11. CASE \E e \in Locations \cup {Goal} : Emit(e)
  <2> PICK e \in Locations \cup {Goal} : Emit(e)
    BY <1>11
  <2>1. Append(events, e) \in Seq(Locations \cup {Goal})
    BY AppendProperties
  <2> QED
    BY <2>1 DEF Emit, service
<1>12. CASE UNCHANGED vars
  BY <1>12 DEF vars, game, service
<1> QED
  BY <1>1, <1>2, <1>3, <1>4, <1>5, <1>6, <1>7, <1>8, <1>9, <1>10, <1>11,
     <1>12 DEF Next, Service
-----------------------------------------------------------------------------
(* The strengthening holds of an empty store.                               *)
LEMMA IInvInit == Init => IInv
<1> SUFFICES ASSUME Init PROVE IInv
  OBVIOUS
<1>1. TypeOK
  BY TypeInit
<1> QED
  BY <1>1 DEF Init, IInv, SentMarkIsTrue, AtHand, MemoryMatches,
              DesiredIsRecorded, Recorded

(* Rows are only ever added, and only the location at hand is marked, once  *)
(* it was sent; so every step keeps the strengthening.                      *)
LEMMA IInvStep == IInv /\ [Next]_vars => IInv'
<1> SUFFICES ASSUME IInv, [Next]_vars PROVE IInv'
  OBVIOUS
<1>0. TypeOK'
  BY TypeStep DEF IInv
<1> USE <1>0 DEF IInv, SentMarkIsTrue, AtHand, MemoryMatches,
                 DesiredIsRecorded
<1>1. CASE Start
  BY <1>1 DEF Start, Loaded, Recorded, game
<1>2. CASE Stop
  BY <1>2 DEF Stop, Recorded
<1>3. CASE Connect
  BY <1>3 DEF Connect, game, Recorded
<1>4. CASE Reconcile
  BY <1>4 DEF Reconcile, Recorded
<1>5. CASE HandleCheck
  BY <1>5 DEF HandleCheck, Known, Recorded
<1>6. CASE HandleGoal
  BY <1>6 DEF HandleGoal, Recorded
<1>7. CASE SendGoal
  BY <1>7 DEF SendGoal, game, Recorded
<1>8. CASE RecordCheck
  <2>1. \A l \in Locations : rows'[l] =
           IF l \in current /\ rows[l] = "absent" THEN "unsent" ELSE rows[l]
    BY <1>8 DEF RecordCheck, Row
  <2>2. current \subseteq Locations
    BY DEF TypeOK
  <2>3. Recorded' = Recorded \cup current
    BY <2>1, <2>2 DEF Recorded
  <2>4. SentMarkIsTrue'
    BY <1>8, <2>1 DEF RecordCheck
  <2> QED
    BY <1>8, <2>3, <2>4 DEF RecordCheck, game
<1>9. CASE SendCheck
  <2>1. Recorded' = Recorded
    BY <1>9 DEF SendCheck, Recorded
  <2>2. SentMarkIsTrue'
    BY <1>9 DEF SendCheck
  <2> QED
    BY <1>9, <2>1, <2>2 DEF SendCheck, game
<1>10. CASE MarkSent
  <2>1. \A l \in Locations : rows'[l] =
           IF l \in current /\ rows[l] # "absent" THEN "sent" ELSE rows[l]
    BY <1>10 DEF MarkSent, Marked
  <2>2. Recorded' = Recorded
    BY <2>1 DEF Recorded
  <2>3. SentMarkIsTrue'
    BY <1>10, <2>1 DEF MarkSent
  <2> QED
    BY <1>10, <2>2, <2>3 DEF MarkSent, game
<1>11. CASE \E e \in Locations \cup {Goal} : Emit(e)
  BY <1>11 DEF Emit, service, Recorded
<1>12. CASE UNCHANGED vars
  BY <1>12 DEF vars, game, service, Recorded
<1> QED
  BY <1>1, <1>2, <1>3, <1>4, <1>5, <1>6, <1>7, <1>8, <1>9, <1>10, <1>11,
     <1>12 DEF Next, Service

(* IInv is an invariant of the specification.                               *)
LEMMA IInvInvariant == Spec => []IInv
BY IInvInit, IInvStep, PTL DEF Spec
-----------------------------------------------------------------------------
(* A row marked as sent was sent, whatever step a process died at.          *)
THEOREM SentMarkTheorem == Spec => [](TypeOK /\ SentMarkIsTrue)
<1>1. IInv => TypeOK /\ SentMarkIsTrue
  BY DEF IInv
<1> QED
  BY <1>1, IInvInvariant, PTL

(* Between two events the memory of the service is what the store holds, so *)
(* a restart neither forgets a check nor takes a known one for new.         *)
THEOREM DurableMemoryTheorem == Spec => []MemoryIsDurable
<1>1. IInv => MemoryIsDurable
  BY DEF IInv, MemoryMatches, MemoryIsDurable
<1> QED
  BY <1>1, IInvInvariant, PTL

(* No step, a crash and a restart included, gives the game a desired state  *)
(* with fewer checked locations: the store has them before the game does.   *)
THEOREM DesiredGrowsTheorem == Spec => DesiredNeverShrinks
<1>1. IInv /\ [Next]_vars => [desired \subseteq desired']_vars
  <2> SUFFICES ASSUME IInv, [Next]_vars PROVE desired \subseteq desired'
    OBVIOUS
  <2>1. CASE Reconcile
    <3>1. checked_locations = Recorded
      BY <2>1 DEF Reconcile, IInv, MemoryMatches
    <3> QED
      BY <2>1, <3>1 DEF Reconcile, IInv, DesiredIsRecorded
  <2>2. CASE ~Reconcile
    BY <2>2 DEF Next, Service, Start, Stop, Connect, HandleCheck, HandleGoal,
                SendGoal, RecordCheck, SendCheck, MarkSent, Emit, vars, game
  <2> QED
    BY <2>1, <2>2
<1> QED
  BY <1>1, IInvInvariant, PTL DEF Spec, DesiredNeverShrinks
-----------------------------------------------------------------------------
(* The watcher.  What the player does is a move of one of these kinds.     *)
Moves == {m \in [move : {"race", "collect", "tournament", "spend"}, won : BOOLEAN,
                 better : BOOLEAN, id : Routes \cup Cities \cup {0}] :
             /\ m.move = "race" => m.id \in Routes
             /\ m.move = "collect" => m.id \in Cities
             /\ m.better => m.move = "race"}
Fields == {"wins", "earnings", "tournaments", "total", "best", "city"}
Places == {"idle", "stats", "gap", "write"}

WatcherTypes ==
    /\ money \in Int /\ last_money \in Int /\ injected \in Int
    /\ money_read \in Int /\ gap \in Int /\ floor \in 0..MaxFloor /\ paid \in Nat
    /\ stats \in Counters /\ target \in Counters /\ last_stats \in Counters
    /\ left \subseteq Fields \cup {"money"}
    /\ access \in Places
    /\ {readable, primed, clean, smudge, strange} \subseteq {"no", "yes"}
    /\ recent \in Seq(Moves)
    /\ touched \subseteq Routes

Won1(m) == m.move = "race" /\ m.won
Bettered(m, r) == m.move = "race" /\ m.better /\ m.id = r
Took(m, p) == m.move = "collect" /\ m.id = p
Cup(m) == m.move = "tournament"

Raised(new, old, cond) == IF cond THEN new > old ELSE new = old
Improved(new, old, cond) ==
    IF cond THEN new # 0 /\ (old = 0 \/ new < old) ELSE new = old

\* A value that is not left to write has been written.  Only a prize is owed to
\* the wallet, and the logos of all cities are as many as there are.
Written ==
    /\ \A f \in Fields \ left : stats[f] = target[f]
    /\ target.earnings = stats.earnings + (IF "earnings" \in left THEN Prize ELSE 0)
    /\ target.total = SumFunctionOnSet(target.city, Cities)

\* Since a clean poll those values differ, or will, that a move changed.
Progress == clean = "yes" =>
    /\ primed = "yes"
    /\ Raised(target.wins, last_stats.wins, \E i \in 1..Len(recent) : Won1(recent[i]))
    /\ Raised(target.tournaments, last_stats.tournaments,
              \E i \in 1..Len(recent) : Cup(recent[i]))
    /\ Raised(target.total, last_stats.total,
              \E i \in 1..Len(recent) : recent[i].move = "collect")
    /\ \A p \in Cities : Raised(target.city[p], last_stats.city[p],
                                \E i \in 1..Len(recent) : Took(recent[i], p))
    /\ \A r \in Routes : Improved(target.best[r], last_stats.best[r],
                                  \E i \in 1..Len(recent) : Bettered(recent[i], r))

\* If the game did nothing between two accesses of the client, what it has read
\* is what is there;
Reads == smudge = "no" =>
    /\ access = "stats" => money_read = money
    /\ access = "write" => gap = floor - money

\* and since a clean poll the wallet has gained what was earned and injected, and
\* lost what was paid.
Owed == IF "money" \in left THEN Prize ELSE 0
Balance == clean = "yes" /\ smudge = "no" =>
    ((money + Owed) - last_money) - injected
       = (target.earnings - last_stats.earnings) - paid

\* The time of a route that was not finished has not changed.
Untouched == \A r \in Routes \ touched :
    /\ stats.best[r] = target.best[r]
    /\ strange = "no" /\ primed = "yes" => last_stats.best[r] = stats.best[r]

WatcherInv ==
    /\ WatcherTypes /\ Written /\ Progress /\ Reads /\ Balance /\ Untouched
-----------------------------------------------------------------------------
\* What the fields of a catalog are.
LEMMA CountersFacts ==
    ASSUME NEW s \in Counters
    PROVE  /\ s.wins \in Nat /\ s.earnings \in Nat /\ s.tournaments \in Nat
           /\ s.total \in Nat /\ s.best \in [Routes -> Nat] /\ s.city \in [Cities -> Nat]
           /\ DOMAIN s = Fields
BY DEF Counters, Fields

\* There are finitely many cities, and a count of each gives a sum.
LEMMA CitiesFacts ==
    /\ IsFiniteSet(Cities) /\ Cities \subseteq Nat
    /\ \A f \in [Cities -> Nat] : SumFunctionOnSet(f, Cities) \in Nat
<1>1. IsFiniteSet(Cities) /\ Cities \subseteq Nat
  <2>1. 0 \in Int /\ 7 \in Int
    OBVIOUS
  <2>2. IsFiniteSet(0..7)
    BY <2>1, FS_Interval
  <2>3. Cities \in SUBSET (0..7)
    BY IdsAssumption
  <2>4. IsFiniteSet(Cities)
    BY ONLY <2>2, <2>3, FS_Subset
  <2> QED
    BY <2>3, <2>4
<1> QED
  BY <1>1, SumOverSet

\* A move more.
LEMMA MoreMoves ==
    ASSUME NEW m \in Moves, recent \in Seq(Moves), recent' = Append(recent, m)
    PROVE  /\ recent' \in Seq(Moves)
           /\ (\E i \in 1..Len(recent') : Won1(recent'[i])) <=>
                 Won1(m) \/ \E i \in 1..Len(recent) : Won1(recent[i])
           /\ (\E i \in 1..Len(recent') : Cup(recent'[i])) <=>
                 Cup(m) \/ \E i \in 1..Len(recent) : Cup(recent[i])
           /\ (\E i \in 1..Len(recent') : recent'[i].move = "collect") <=>
                 m.move = "collect" \/ \E i \in 1..Len(recent) : recent[i].move = "collect"
           /\ \A p : (\E i \in 1..Len(recent') : Took(recent'[i], p)) <=>
                 Took(m, p) \/ \E i \in 1..Len(recent) : Took(recent[i], p)
           /\ \A r : (\E i \in 1..Len(recent') : Bettered(recent'[i], r)) <=>
                 Bettered(m, r) \/ \E i \in 1..Len(recent) : Bettered(recent[i], r)
<1> DEFINE n == Len(recent)
<1>1. /\ n \in Nat /\ recent' \in Seq(Moves) /\ Len(recent') = n + 1
      /\ \A i \in 1..n : recent'[i] = recent[i]
      /\ recent'[n + 1] = m
  OBVIOUS
<1>2. 1..(n + 1) = (1..n) \cup {n + 1}
  BY <1>1
<1> HIDE DEF n
<1>3. \A i \in 1..Len(recent') : (i \in 1..n /\ recent'[i] = recent[i]) \/ recent'[i] = m
  BY <1>1, <1>2
<1>4. n + 1 \in 1..Len(recent') /\ \A i \in 1..n : i \in 1..Len(recent')
  BY <1>1, <1>2
<1> QED
  BY <1>1, <1>3, <1>4 DEF n

\* What a result has to be: its values are those of the catalog, or to be written.
Advances(m, after, writes) ==
    /\ after \in Counters /\ writes \subseteq Fields \cup {"money"}
    /\ \A f \in Fields \ writes : stats[f] = after[f]
    /\ after.earnings = stats.earnings + (IF "earnings" \in writes THEN Prize ELSE 0)
    /\ "money" \in writes <=> "earnings" \in writes
    /\ after.total = SumFunctionOnSet(after.city, Cities)
    /\ Raised(after.wins, stats.wins, Won1(m))
    /\ Raised(after.tournaments, stats.tournaments, Cup(m))
    /\ Raised(after.total, stats.total, m.move = "collect")
    /\ \A p \in Cities : Raised(after.city[p], stats.city[p], Took(m, p))
    /\ \A r \in Routes : Improved(after.best[r], stats.best[r], Bettered(m, r))

\* When nothing is left to write, the catalog is what it was to become.
LEMMA StatsAreTarget ==
    ASSUME WatcherTypes, Written, left = {}
    PROVE  /\ stats.wins = target.wins /\ stats.earnings = target.earnings
           /\ stats.tournaments = target.tournaments /\ stats.total = target.total
           /\ stats.best = target.best /\ stats.city = target.city
<1>1. \A f \in Fields : stats[f] = target[f]
  BY DEF Written
<1>2. /\ stats["wins"] = target["wins"] /\ stats["earnings"] = target["earnings"]
      /\ stats["tournaments"] = target["tournaments"] /\ stats["total"] = target["total"]
      /\ stats["best"] = target["best"] /\ stats["city"] = target["city"]
  BY <1>1 DEF Fields
<1> QED
  BY <1>2

\* A result that advances keeps the invariant, whatever was achieved.
LEMMA ResultKeeps ==
    ASSUME WatcherInv, NEW m \in Moves, NEW after, NEW writes,
           Advances(m, after, writes), Result(m, after, writes),
           touched' \subseteq Routes, touched \subseteq touched',
           \A r \in Routes : Bettered(m, r) => r \in touched'
    PROVE  WatcherInv'
<1>1. WatcherTypes /\ Written /\ Progress /\ Reads /\ Balance /\ Untouched
  BY DEF WatcherInv
<1>2. /\ left = {} /\ target' = after /\ left' = writes
      /\ recent' = Append(recent, m) /\ smudge' = Smudged
      /\ money' = money /\ stats' = stats /\ readable' = readable
      /\ access' = access /\ primed' = primed /\ last_money' = last_money
      /\ last_stats' = last_stats /\ injected' = injected /\ money_read' = money_read
      /\ floor' = floor /\ gap' = gap /\ found' = found /\ spent' = spent
      /\ paid' = paid /\ clean' = clean /\ strange' = strange
  BY DEF Result, client, baseline, report
<1>3. /\ stats.wins = target.wins /\ stats.earnings = target.earnings
      /\ stats.tournaments = target.tournaments /\ stats.total = target.total
      /\ stats.best = target.best /\ stats.city = target.city
  BY <1>1, <1>2, StatsAreTarget
<1>4. /\ stats \in Counters /\ last_stats \in Counters /\ after \in Counters
      /\ recent \in Seq(Moves)
  BY <1>1 DEF WatcherTypes, Advances
<1>5. WatcherTypes'
  <2>1. recent' \in Seq(Moves)
    BY <1>2, <1>4
  <2>2. smudge' \in {"no", "yes"}
    BY <1>1, <1>2 DEF WatcherTypes, Smudged
  <2> QED
    BY <1>1, <1>2, <2>1, <2>2 DEF WatcherTypes, Advances
<1>6. Written'
  BY <1>2 DEF Written, Advances
<1>7. Progress'
  <2> SUFFICES ASSUME clean = "yes" PROVE Progress'
    BY <1>2 DEF Progress
  <2>1. /\ primed = "yes"
        /\ Raised(stats.wins, last_stats.wins, \E i \in 1..Len(recent) : Won1(recent[i]))
        /\ Raised(stats.tournaments, last_stats.tournaments,
                  \E i \in 1..Len(recent) : Cup(recent[i]))
        /\ Raised(stats.total, last_stats.total,
                  \E i \in 1..Len(recent) : recent[i].move = "collect")
        /\ \A p \in Cities : Raised(stats.city[p], last_stats.city[p],
                                    \E i \in 1..Len(recent) : Took(recent[i], p))
        /\ \A r \in Routes : Improved(stats.best[r], last_stats.best[r],
                                      \E i \in 1..Len(recent) : Bettered(recent[i], r))
    BY <1>1, <1>3 DEF Progress
  <2>2. Raised(after.wins, last_stats.wins, \E i \in 1..Len(recent') : Won1(recent'[i]))
    <3>1. after.wins \in Nat /\ stats.wins \in Nat /\ last_stats.wins \in Nat
      BY <1>4, CountersFacts
    <3>2. (\E i \in 1..Len(recent') : Won1(recent'[i])) <=>
             Won1(m) \/ \E i \in 1..Len(recent) : Won1(recent[i])
      BY <1>2, <1>4, MoreMoves
    <3>3. /\ Raised(stats.wins, last_stats.wins, \E i \in 1..Len(recent) : Won1(recent[i]))
          /\ Raised(after.wins, stats.wins, Won1(m))
      BY <2>1 DEF Advances
    <3> QED
      BY ONLY <3>1, <3>2, <3>3 DEF Raised
  <2>3. Raised(after.tournaments, last_stats.tournaments,
               \E i \in 1..Len(recent') : Cup(recent'[i]))
    <3>1. /\ after.tournaments \in Nat /\ stats.tournaments \in Nat
          /\ last_stats.tournaments \in Nat
      BY <1>4, CountersFacts
    <3>2. (\E i \in 1..Len(recent') : Cup(recent'[i])) <=>
             Cup(m) \/ \E i \in 1..Len(recent) : Cup(recent[i])
      BY <1>2, <1>4, MoreMoves
    <3>3. /\ Raised(stats.tournaments, last_stats.tournaments,
                    \E i \in 1..Len(recent) : Cup(recent[i]))
          /\ Raised(after.tournaments, stats.tournaments, Cup(m))
      BY <2>1 DEF Advances
    <3> QED
      BY ONLY <3>1, <3>2, <3>3 DEF Raised
  <2>4. Raised(after.total, last_stats.total,
               \E i \in 1..Len(recent') : recent'[i].move = "collect")
    BY <1>2, <1>4, <2>1, CountersFacts, MoreMoves DEF Raised, Advances
  <2>5. ASSUME NEW p \in Cities
        PROVE  Raised(after.city[p], last_stats.city[p],
                      \E i \in 1..Len(recent') : Took(recent'[i], p))
    <3>1. after.city[p] \in Nat /\ stats.city[p] \in Nat /\ last_stats.city[p] \in Nat
      BY <1>4, CountersFacts
    <3>2. (\E i \in 1..Len(recent') : Took(recent'[i], p)) <=>
             Took(m, p) \/ \E i \in 1..Len(recent) : Took(recent[i], p)
      BY <1>2, <1>4, MoreMoves
    <3>3. /\ Raised(stats.city[p], last_stats.city[p],
                    \E i \in 1..Len(recent) : Took(recent[i], p))
          /\ Raised(after.city[p], stats.city[p], Took(m, p))
      BY <2>1 DEF Advances
    <3> QED
      BY <3>1, <3>2, <3>3 DEF Raised
  <2>6. ASSUME NEW r \in Routes
        PROVE  Improved(after.best[r], last_stats.best[r],
                        \E i \in 1..Len(recent') : Bettered(recent'[i], r))
    <3>1. after.best[r] \in Nat /\ stats.best[r] \in Nat /\ last_stats.best[r] \in Nat
      BY <1>4, CountersFacts
    <3>2. (\E i \in 1..Len(recent') : Bettered(recent'[i], r)) <=>
             Bettered(m, r) \/ \E i \in 1..Len(recent) : Bettered(recent[i], r)
      BY <1>2, <1>4, MoreMoves
    <3>3. /\ Improved(stats.best[r], last_stats.best[r],
                      \E i \in 1..Len(recent) : Bettered(recent[i], r))
          /\ Improved(after.best[r], stats.best[r], Bettered(m, r))
      BY <2>1 DEF Advances
    <3> QED
      BY <3>1, <3>2, <3>3 DEF Improved
  <2> QED
    BY <1>2, <2>1, <2>2, <2>3, <2>4, <2>5, <2>6 DEF Progress
<1>8. Balance'
  <2> SUFFICES ASSUME clean = "yes", smudge' = "no" PROVE Balance'
    BY <1>2 DEF Balance
  <2>1. access = "idle" /\ smudge = "no"
    BY <1>2 DEF Smudged
  <2>2. (money - last_money) - injected = (stats.earnings - last_stats.earnings) - paid
    <3>1. "money" \notin left
      BY <1>2
    <3>2. money \in Int /\ last_money \in Int
      BY <1>1 DEF WatcherTypes
    <3>3. ((money + Owed) - last_money) - injected
             = (target.earnings - last_stats.earnings) - paid
      BY <1>1, <2>1 DEF Balance
    <3>4. Owed = 0
      BY <3>1 DEF Owed
    <3>5. money + 0 = money
      BY <3>2
    <3>6. money + Owed = money
      BY ONLY <3>4, <3>5
    <3> QED
      BY ONLY <1>3, <3>3, <3>6
  <2>3. /\ money \in Int /\ last_money \in Int /\ injected \in Int /\ paid \in Nat
        /\ stats.earnings \in Nat /\ last_stats.earnings \in Nat /\ Prize \in Nat
    BY <1>1, <1>4, CountersFacts, MoneyAssumption DEF WatcherTypes
  <2>4. /\ Owed' \in Nat
        /\ after.earnings = stats.earnings + Owed'
    BY <1>2, <2>3 DEF Advances, Owed
  <2>5. ((money + Owed') - last_money) - injected
           = (after.earnings - last_stats.earnings) - paid
    BY ONLY <2>2, <2>3, <2>4
  <2> QED
    BY ONLY <1>2, <2>5 DEF Balance
<1>9. Reads'
  <2> SUFFICES ASSUME smudge' = "no" PROVE Reads'
    BY DEF Reads
  <2>1. access = "idle"
    BY <1>2 DEF Smudged
  <2> QED
    BY <1>2, <2>1 DEF Reads
<1>10. Untouched'
  <2> SUFFICES ASSUME NEW r \in Routes \ touched'
               PROVE  /\ stats.best[r] = after.best[r]
                      /\ strange = "no" /\ primed = "yes" => last_stats.best[r] = stats.best[r]
    BY <1>2 DEF Untouched
  <2>1. after.best[r] = stats.best[r]
    BY DEF Advances, Improved
  <2> QED
    BY <1>1, <2>1 DEF Untouched
<1> QED
  BY <1>5, <1>6, <1>7, <1>8, <1>9, <1>10 DEF WatcherInv

\* A finished race advances: a time only improves, and who wins earns the prize.
LEMMA FinishRaceKeeps ==
    ASSUME WatcherInv, NEW r \in Routes, NEW place \in {1, 2}, NEW time \in {Slow, Fast},
           FinishRace(r, place, time)
    PROVE  WatcherInv'
<1> DEFINE better == stats.best[r] = 0 \/ time < stats.best[r]
           best == IF better THEN [stats.best EXCEPT ![r] = time] ELSE stats.best
           won == place = 1
           m == [move |-> "race", won |-> won, better |-> better, id |-> r]
           after == IF won THEN [stats EXCEPT !.best = best, !.wins = @ + 1,
                                              !.earnings = @ + Prize]
                           ELSE [stats EXCEPT !.best = best]
           writes == (IF better THEN {"best"} ELSE {}) \cup
                     (IF won THEN {"wins", "earnings", "money"} ELSE {})
<1>1. WatcherTypes /\ Written /\ left = {}
  BY DEF WatcherInv, FinishRace, Result
<1>2. /\ stats \in Counters /\ stats.wins \in Nat /\ stats.earnings \in Nat
      /\ stats.tournaments \in Nat /\ stats.total \in Nat
      /\ stats.best \in [Routes -> Nat] /\ stats.city \in [Cities -> Nat]
      /\ DOMAIN stats = Fields /\ Prize \in Nat
  BY <1>1, CountersFacts, MoneyAssumption DEF WatcherTypes
<1>3. stats.total = SumFunctionOnSet(stats.city, Cities)
  BY <1>1, StatsAreTarget DEF Written
<1>4. Result(m, after, writes) /\ touched' = touched \cup {r}
  BY DEF FinishRace
<1>5. /\ best \in [Routes -> Nat]
      /\ \A q \in Routes : Improved(best[q], stats.best[q], better /\ q = r)
      /\ ~better => best = stats.best
  BY <1>2 DEF Slow, Fast, Improved
<1>6. m \in Moves
  BY DEF Moves
<1> HIDE DEF better, best
<1>7. /\ after \in Counters
      /\ after.best = best /\ after.city = stats.city /\ after.total = stats.total
      /\ after.tournaments = stats.tournaments
      /\ after.wins = stats.wins + (IF won THEN 1 ELSE 0)
      /\ after.earnings = stats.earnings + (IF won THEN Prize ELSE 0)
  <2> DEFINE wins == stats.wins + (IF won THEN 1 ELSE 0)
             earnings == stats.earnings + (IF won THEN Prize ELSE 0)
  <2>1. wins \in Nat /\ earnings \in Nat
    BY <1>2
  <2>2. wins = (IF won THEN stats.wins + 1 ELSE stats.wins)
    BY <1>2
  <2>3. earnings = (IF won THEN stats.earnings + Prize ELSE stats.earnings)
    BY <1>2
  <2> HIDE DEF wins, earnings
  <2>4. after = [wins |-> wins, earnings |-> earnings, tournaments |-> stats.tournaments,
                 total |-> stats.total, best |-> best, city |-> stats.city]
    BY <1>2, <2>2, <2>3 DEF Counters, Fields
  <2>5. after \in Counters
    BY ONLY <1>2, <1>5, <2>1, <2>4 DEF Counters
  <2> QED
    BY ONLY <2>4, <2>5 DEF wins, earnings
<1>8. /\ m.move = "race" /\ m.won = won /\ m.better = better /\ m.id = r
  OBVIOUS
<1>9. /\ "best" \in writes <=> better
      /\ "wins" \in writes <=> won
      /\ "earnings" \in writes <=> won
      /\ "money" \in writes <=> won
      /\ writes \subseteq Fields \cup {"money"}
  BY DEF Fields
<1> HIDE DEF m, after, writes, won
<1>10. \A f \in Fields \ writes : stats[f] = after[f]
  <2>1. /\ "best" \notin writes => stats["best"] = after["best"]
        /\ "wins" \notin writes => stats["wins"] = after["wins"]
        /\ "earnings" \notin writes => stats["earnings"] = after["earnings"]
        /\ stats["total"] = after["total"] /\ stats["city"] = after["city"]
        /\ stats["tournaments"] = after["tournaments"]
    BY <1>2, <1>5, <1>7, <1>9
  <2> QED
    BY <2>1 DEF Fields
<1>11. Advances(m, after, writes)
  <2>1. Raised(after.wins, stats.wins, Won1(m))
    BY <1>2, <1>7, <1>8 DEF Raised, Won1
  <2>2. /\ Raised(after.tournaments, stats.tournaments, Cup(m))
        /\ Raised(after.total, stats.total, m.move = "collect")
        /\ \A p \in Cities : Raised(after.city[p], stats.city[p], Took(m, p))
    BY <1>7, <1>8 DEF Raised, Cup, Took
  <2>3. \A q \in Routes : Improved(after.best[q], stats.best[q], Bettered(m, q))
    BY <1>5, <1>7, <1>8 DEF Bettered, Improved
  <2>4. after.earnings = stats.earnings + (IF "earnings" \in writes THEN Prize ELSE 0)
    BY <1>7, <1>9
  <2>5. after.total = SumFunctionOnSet(after.city, Cities)
    BY <1>3, <1>7
  <2> QED
    BY <1>7, <1>9, <1>10, <2>1, <2>2, <2>3, <2>4, <2>5 DEF Advances
<1>12. \A q \in Routes : Bettered(m, q) => q \in touched'
  BY <1>4, <1>8 DEF Bettered
<1>13. touched' \subseteq Routes /\ touched \subseteq touched'
  BY <1>1, <1>4 DEF WatcherTypes
<1> QED
  BY <1>4, <1>6, <1>11, <1>12, <1>13, ResultKeeps

\* A logo more leaves a catalog.
LEMMA LogoCounted ==
    ASSUME NEW s \in Counters, NEW city \in [Cities -> Nat]
    PROVE  [s EXCEPT !.total = @ + 1, !.city = city] \in Counters
<1>1. s.total + 1 \in Nat
  BY DEF Counters
<1> QED
  BY <1>1 DEF Counters

\* A logo advances: its city and all cities count one more.
LEMMA CollectKeeps ==
    ASSUME WatcherInv, NEW p \in Cities, Collect(p)
    PROVE  WatcherInv'
<1> DEFINE m == [move |-> "collect", won |-> FALSE, better |-> FALSE, id |-> p]
           city == [stats.city EXCEPT ![p] = @ + 1]
           after == [stats EXCEPT !.total = @ + 1, !.city[p] = @ + 1]
           writes == {"total", "city"}
<1>1. WatcherTypes /\ Written /\ left = {}
  BY DEF WatcherInv, Collect, Result
<1>2. /\ stats \in Counters /\ stats.wins \in Nat /\ stats.earnings \in Nat
      /\ stats.tournaments \in Nat /\ stats.total \in Nat
      /\ stats.best \in [Routes -> Nat] /\ stats.city \in [Cities -> Nat]
      /\ DOMAIN stats = Fields
  BY <1>1, CountersFacts DEF WatcherTypes
<1>3. stats.total = SumFunctionOnSet(stats.city, Cities)
  BY <1>1, StatsAreTarget DEF Written
<1>4. Result(m, after, writes) /\ touched' = touched
  BY DEF Collect
<1>5. m \in Moves
  BY DEF Moves
<1>6. /\ city \in [Cities -> Nat] /\ city[p] = stats.city[p] + 1
      /\ \A q \in Cities \ {p} : city[q] = stats.city[q]
  BY <1>2
<1>7. SumFunctionOnSet(city, Cities) = SumFunctionOnSet(stats.city, Cities) + 1
  <2>1. 1 \in Nat /\ \A q \in Cities : stats.city[q] \in Nat
    BY <1>2
  <2>2. PICK f, g : f = stats.city /\ g = city
    OBVIOUS
  <2> HIDE DEF city
  <2>3. /\ IsFiniteSet(Cities) /\ 1 \in Nat /\ \A q \in Cities : f[q] \in Nat
        /\ g[p] = f[p] + 1 /\ \A q \in Cities \ {p} : g[q] = f[q]
    BY <1>6, <2>1, <2>2, CitiesFacts
  <2>4. SumFunctionOnSet(g, Cities) = SumFunctionOnSet(f, Cities) + 1
    BY ONLY <2>3, SumOfRaised, p \in Cities
  <2> QED
    BY ONLY <2>2, <2>4
<1>8. /\ after \in Counters
      /\ after.best = stats.best /\ after.city = city /\ after.total = stats.total + 1
      /\ after.tournaments = stats.tournaments
      /\ after.wins = stats.wins /\ after.earnings = stats.earnings
  <2>1. /\ after.best = stats.best /\ after.city = city /\ after.total = stats.total + 1
        /\ after.tournaments = stats.tournaments
        /\ after.wins = stats.wins /\ after.earnings = stats.earnings
    BY <1>2 DEF Fields
  <2>2. after \in Counters
    <3>1. after = [stats EXCEPT !.total = @ + 1, !.city = city]
      BY <1>2 DEF Fields
    <3>2. city \in [Cities -> Nat]
      BY <1>6
    <3> HIDE DEF city
    <3>3. [stats EXCEPT !.total = @ + 1, !.city = city] \in Counters
      BY ONLY <1>2, <3>2, LogoCounted
    <3> QED
      BY ONLY <3>1, <3>3
  <2> QED
    BY <2>1, <2>2
<1>9. m.move = "collect" /\ m.id = p
  OBVIOUS
<1> HIDE DEF m, city, after
<1>10. \A f \in Fields \ writes : stats[f] = after[f]
  <2>1. /\ stats["best"] = after["best"] /\ stats["wins"] = after["wins"]
        /\ stats["earnings"] = after["earnings"]
        /\ stats["tournaments"] = after["tournaments"]
    BY <1>8
  <2> QED
    BY <2>1 DEF Fields
<1>11. Advances(m, after, writes)
  <2>1. /\ Raised(after.wins, stats.wins, Won1(m))
        /\ Raised(after.tournaments, stats.tournaments, Cup(m))
        /\ \A r \in Routes : Improved(after.best[r], stats.best[r], Bettered(m, r))
    BY <1>8, <1>9 DEF Raised, Improved, Won1, Cup, Bettered
  <2>2. Raised(after.total, stats.total, m.move = "collect")
    BY <1>2, <1>8, <1>9 DEF Raised
  <2>3. \A q \in Cities : Raised(after.city[q], stats.city[q], Took(m, q))
    BY <1>2, <1>6, <1>8, <1>9 DEF Raised, Took
  <2>4. after.earnings = stats.earnings + (IF "earnings" \in writes THEN Prize ELSE 0)
    BY <1>2, <1>8
  <2>5. after.total = SumFunctionOnSet(after.city, Cities)
    BY <1>3, <1>7, <1>8
  <2> QED
    BY <1>8, <1>10, <2>1, <2>2, <2>3, <2>4, <2>5 DEF Advances, Fields
<1>12. \A q \in Routes : ~Bettered(m, q)
  BY <1>9 DEF Bettered
<1>13. touched' \subseteq Routes /\ touched \subseteq touched'
  BY <1>1, <1>4 DEF WatcherTypes
<1> QED
  BY <1>4, <1>5, <1>11, <1>12, <1>13, ResultKeeps

\* A tournament advances.
LEMMA WinTournamentKeeps ==
    ASSUME WatcherInv, WinTournament
    PROVE  WatcherInv'
<1> DEFINE m == [move |-> "tournament", won |-> TRUE, better |-> FALSE, id |-> 0]
           after == [stats EXCEPT !.tournaments = @ + 1]
           writes == {"tournaments"}
<1>1. WatcherTypes /\ Written /\ left = {}
  BY DEF WatcherInv, WinTournament, Result
<1>2. /\ stats \in Counters /\ stats.wins \in Nat /\ stats.earnings \in Nat
      /\ stats.tournaments \in Nat /\ stats.total \in Nat
      /\ stats.best \in [Routes -> Nat] /\ stats.city \in [Cities -> Nat]
      /\ DOMAIN stats = Fields
  BY <1>1, CountersFacts DEF WatcherTypes
<1>3. stats.total = SumFunctionOnSet(stats.city, Cities)
  BY <1>1, StatsAreTarget DEF Written
<1>4. Result(m, after, writes) /\ touched' = touched
  BY DEF WinTournament
<1>5. m \in Moves
  BY DEF Moves
<1>6. /\ after \in Counters
      /\ after.best = stats.best /\ after.city = stats.city /\ after.total = stats.total
      /\ after.tournaments = stats.tournaments + 1
      /\ after.wins = stats.wins /\ after.earnings = stats.earnings
  BY <1>2 DEF Counters, Fields
<1>7. m.move = "tournament"
  OBVIOUS
<1> HIDE DEF m, after
<1>8. \A f \in Fields \ writes : stats[f] = after[f]
  <2>1. /\ stats["best"] = after["best"] /\ stats["wins"] = after["wins"]
        /\ stats["earnings"] = after["earnings"]
        /\ stats["total"] = after["total"] /\ stats["city"] = after["city"]
    BY <1>6
  <2> QED
    BY <2>1 DEF Fields
<1>9. Advances(m, after, writes)
  <2>1. /\ Raised(after.wins, stats.wins, Won1(m))
        /\ Raised(after.total, stats.total, m.move = "collect")
        /\ \A q \in Cities : Raised(after.city[q], stats.city[q], Took(m, q))
        /\ \A r \in Routes : Improved(after.best[r], stats.best[r], Bettered(m, r))
    BY <1>6, <1>7 DEF Raised, Improved, Won1, Took, Bettered
  <2>2. Raised(after.tournaments, stats.tournaments, Cup(m))
    BY <1>2, <1>6, <1>7 DEF Raised, Cup
  <2>3. after.earnings = stats.earnings + (IF "earnings" \in writes THEN Prize ELSE 0)
    BY <1>2, <1>6
  <2>4. after.total = SumFunctionOnSet(after.city, Cities)
    BY <1>3, <1>6
  <2> QED
    BY <1>6, <1>8, <2>1, <2>2, <2>3, <2>4 DEF Advances, Fields
<1>10. \A q \in Routes : ~Bettered(m, q)
  BY <1>7 DEF Bettered
<1>11. touched' \subseteq Routes /\ touched \subseteq touched'
  BY <1>1, <1>4 DEF WatcherTypes
<1> QED
  BY <1>4, <1>5, <1>9, <1>10, <1>11, ResultKeeps

\* A step that leaves the catalog and what is compared with it alone.
LEMMA SameStats ==
    ASSUME WatcherInv,
           stats' = stats, target' = target, last_stats' = last_stats,
           primed' = primed, clean' = clean, strange' = strange, touched' = touched,
           left' \cap Fields = left \cap Fields
    PROVE  /\ Written' /\ Untouched'
           /\ recent' = recent => Progress'
<1>1. Written /\ Untouched /\ Progress
  BY DEF WatcherInv
<1>2. Fields \ left' = Fields \ left /\ ("earnings" \in left' <=> "earnings" \in left)
  BY DEF Fields
<1>3. Written'
  BY <1>1, <1>2 DEF Written
<1>4. Untouched'
  BY <1>1 DEF Untouched
<1>5. recent' = recent => Progress'
  BY <1>1 DEF Progress
<1> QED
  BY <1>3, <1>4, <1>5

\* What is spent leaves the wallet and is paid.
LEMMA SpendKeeps ==
    ASSUME WatcherInv, Spend
    PROVE  WatcherInv'
<1> DEFINE m == [move |-> "spend", won |-> FALSE, better |-> FALSE, id |-> 0]
<1>1. WatcherTypes /\ Progress /\ Balance
  BY DEF WatcherInv
<1>2. /\ money' = money - Amount /\ paid' = paid + Amount /\ recent' = Append(recent, m)
      /\ smudge' = Smudged /\ stats' = stats /\ readable' = readable /\ left' = left
      /\ target' = target /\ access' = access /\ primed' = primed
      /\ last_money' = last_money /\ last_stats' = last_stats /\ injected' = injected
      /\ money_read' = money_read /\ floor' = floor /\ gap' = gap /\ found' = found
      /\ clean' = clean /\ strange' = strange /\ touched' = touched
  BY DEF Spend, client, baseline, report
<1>3. m \in Moves /\ m.move = "spend"
  BY DEF Moves
<1> HIDE DEF m
<1>4. /\ recent' \in Seq(Moves)
      /\ (\E i \in 1..Len(recent') : Won1(recent'[i])) <=>
            \E i \in 1..Len(recent) : Won1(recent[i])
      /\ (\E i \in 1..Len(recent') : Cup(recent'[i])) <=>
            \E i \in 1..Len(recent) : Cup(recent[i])
      /\ (\E i \in 1..Len(recent') : recent'[i].move = "collect") <=>
            \E i \in 1..Len(recent) : recent[i].move = "collect"
      /\ \A p : (\E i \in 1..Len(recent') : Took(recent'[i], p)) <=>
            \E i \in 1..Len(recent) : Took(recent[i], p)
      /\ \A r : (\E i \in 1..Len(recent') : Bettered(recent'[i], r)) <=>
            \E i \in 1..Len(recent) : Bettered(recent[i], r)
  <2>1. recent \in Seq(Moves)
    BY <1>1 DEF WatcherTypes
  <2>2. ~Won1(m) /\ ~Cup(m) /\ m.move # "collect" /\ \A x : ~Took(m, x) /\ ~Bettered(m, x)
    BY <1>3 DEF Won1, Cup, Took, Bettered
  <2> QED
    BY <1>2, <1>3, <2>1, <2>2, MoreMoves
<1>5. money \in Int /\ paid \in Nat /\ Amount \in Nat /\ smudge \in {"no", "yes"}
  BY <1>1, MoneyAssumption DEF WatcherTypes
<1>6. WatcherTypes'
  <2>1. money' \in Int /\ paid' \in Nat /\ smudge' \in {"no", "yes"}
    BY <1>2, <1>5 DEF Smudged
  <2> QED
    BY <1>1, <1>2, <1>4, <2>1 DEF WatcherTypes
<1>7. Written' /\ Untouched'
  BY <1>2, SameStats
<1>8. Progress'
  <2> SUFFICES ASSUME clean = "yes" PROVE Progress'
    BY <1>2 DEF Progress
  <2>1. /\ primed = "yes"
        /\ Raised(target.wins, last_stats.wins, \E i \in 1..Len(recent') : Won1(recent'[i]))
        /\ Raised(target.tournaments, last_stats.tournaments,
                  \E i \in 1..Len(recent') : Cup(recent'[i]))
        /\ Raised(target.total, last_stats.total,
                  \E i \in 1..Len(recent') : recent'[i].move = "collect")
    BY <1>1, <1>4 DEF Progress, Raised
  <2>2. \A p \in Cities : Raised(target.city[p], last_stats.city[p],
                                 \E i \in 1..Len(recent') : Took(recent'[i], p))
    BY <1>1, <1>4 DEF Progress, Raised
  <2>3. \A r \in Routes : Improved(target.best[r], last_stats.best[r],
                                   \E i \in 1..Len(recent') : Bettered(recent'[i], r))
    BY <1>1, <1>4 DEF Progress, Improved
  <2> QED
    BY <1>2, <2>1, <2>2, <2>3 DEF Progress
<1>9. Reads' /\ Balance'
  <2> SUFFICES ASSUME smudge' = "no" PROVE Reads' /\ Balance'
    BY DEF Reads, Balance
  <2>1. access = "idle" /\ smudge = "no"
    BY <1>2 DEF Smudged
  <2>2. Reads'
    BY <1>2, <2>1 DEF Reads
  <2>3. /\ last_money \in Int /\ injected \in Int /\ Prize \in Nat
        /\ target.earnings \in Nat /\ last_stats.earnings \in Nat
    BY <1>1, CountersFacts, MoneyAssumption DEF WatcherTypes
  <2>4. Owed \in Nat /\ Owed' = Owed
    BY <1>2, <2>3 DEF Owed
  <2>5. Balance'
    <3> SUFFICES ASSUME clean = "yes" PROVE Balance'
      BY <1>2 DEF Balance
    <3>1. ((money + Owed) - last_money) - injected
             = (target.earnings - last_stats.earnings) - paid
      BY <1>1, <2>1 DEF Balance
    <3>2. (((money - Amount) + Owed) - last_money) - injected
             = (target.earnings - last_stats.earnings) - (paid + Amount)
      BY ONLY <1>5, <2>3, <2>4, <3>1
    <3> QED
      BY ONLY <1>2, <2>4, <3>2 DEF Balance
  <2> QED
    BY <2>2, <2>5
<1> QED
  BY <1>6, <1>7, <1>8, <1>9 DEF WatcherInv

\* A catalog that comes or goes changes no value.
LEMMA TurnCatalogKeeps ==
    ASSUME WatcherInv, TurnCatalog
    PROVE  WatcherInv'
<1>1. WatcherTypes /\ Balance
  BY DEF WatcherInv
<1>2. /\ readable' \in {"no", "yes"} /\ smudge' = Smudged
      /\ money' = money /\ stats' = stats /\ left' = left /\ target' = target
      /\ access' = access /\ primed' = primed
      /\ last_money' = last_money /\ last_stats' = last_stats /\ injected' = injected
      /\ money_read' = money_read /\ floor' = floor /\ gap' = gap /\ found' = found
      /\ recent' = recent /\ paid' = paid
      /\ clean' = clean /\ strange' = strange /\ touched' = touched
  BY DEF TurnCatalog, client, baseline, report
<1>3. WatcherTypes'
  <2>1. smudge' \in {"no", "yes"}
    BY <1>1, <1>2 DEF WatcherTypes, Smudged
  <2> QED
    BY <1>1, <1>2, <2>1 DEF WatcherTypes
<1>4. Written' /\ Untouched' /\ Progress'
  BY <1>2, SameStats
<1>5. Reads' /\ Balance'
  <2> SUFFICES ASSUME smudge' = "no" PROVE Reads' /\ Balance'
    BY DEF Reads, Balance
  <2>1. access = "idle" /\ smudge = "no"
    BY <1>2 DEF Smudged
  <2> QED
    BY <1>1, <1>2, <2>1 DEF Reads, Balance, Owed
<1> QED
  BY <1>3, <1>4, <1>5 DEF WatcherInv

\* What a profile has when it is loaded: times and wins, no earnings, no logos.
LEMMA ProfileFacts ==
    ASSUME NEW s \in Profiles
    PROVE  /\ s \in Counters /\ s.earnings = 0 /\ s.total = 0
           /\ SumFunctionOnSet(s.city, Cities) = 0
<1>1. /\ NoStats \in Counters /\ NoStats.earnings = 0 /\ NoStats.total = 0
      /\ NoStats.city = [c \in Cities |-> 0] /\ DOMAIN NoStats = Fields
  <2>1. /\ [r \in Routes |-> 0] \in [Routes -> Nat]
        /\ [c \in Cities |-> 0] \in [Cities -> Nat]
    OBVIOUS
  <2> QED
    BY <2>1 DEF NoStats, Fields, Counters
<1>2. PICK b \in [Routes -> {0, Slow}], w \in {0, 1} : s = Profile(b, w)
  BY DEF Profiles
<1>3. b \in [Routes -> Nat] /\ w \in Nat
  BY <1>2 DEF Slow
<1>4. /\ s \in Counters /\ s.earnings = 0 /\ s.total = 0
      /\ s.city = [c \in Cities |-> 0]
  BY <1>1, <1>2, <1>3 DEF Profile, Counters, Fields
<1>5. \A c \in Cities : s.city[c] = 0
  BY <1>4
<1>6. SumFunctionOnSet(s.city, Cities) = 0
  BY <1>5, CitiesFacts, SumOfZeros
<1> QED
  BY <1>4, <1>6

\* Another profile starts everything anew, but for what the client remembers.
LEMMA LoadProfileKeeps ==
    ASSUME WatcherInv, LoadProfile
    PROVE  WatcherInv'
<1>1. WatcherTypes /\ Reads
  BY DEF WatcherInv
<1>2. /\ money' \in {0, 2} /\ stats' \in Profiles /\ target' = stats' /\ left' = {}
      /\ readable' = "yes" /\ smudge' = Smudged /\ clean' = "no" /\ strange' = "yes"
      /\ recent' = <<>> /\ paid' = 0 /\ touched' = {}
      /\ access' = access /\ primed' = primed
      /\ last_money' = last_money /\ last_stats' = last_stats /\ injected' = injected
      /\ money_read' = money_read /\ floor' = floor /\ gap' = gap
  BY DEF LoadProfile, client, baseline
<1>3. /\ stats' \in Counters /\ stats'.earnings = 0 /\ stats'.total = 0
      /\ SumFunctionOnSet(stats'.city, Cities) = 0
  BY <1>2, ProfileFacts
<1>4. WatcherTypes'
  <2>1. /\ money' \in Int /\ paid' \in Nat /\ recent' \in Seq(Moves)
        /\ smudge' \in {"no", "yes"}
    BY <1>1, <1>2 DEF WatcherTypes, Smudged
  <2> QED
    BY <1>1, <1>2, <1>3, <2>1 DEF WatcherTypes
<1>5. Written'
  BY <1>2, <1>3 DEF Written
<1>6. Progress' /\ Balance' /\ Untouched'
  BY <1>2 DEF Progress, Balance, Untouched
<1>7. Reads'
  BY <1>2 DEF Reads, Smudged
<1> QED
  BY <1>4, <1>5, <1>6, <1>7 DEF WatcherInv

\* A value that is written is no longer owed, so the two together stay the same.
LEMMA WriteValueKeeps ==
    ASSUME WatcherInv, NEW f \in left, WriteValue(f)
    PROVE  WatcherInv'
<1>1. WatcherTypes /\ Written /\ Progress /\ Balance /\ Untouched
  BY DEF WatcherInv
<1>2. /\ left' = left \ {f} /\ smudge' = Smudged
      /\ readable' = readable /\ target' = target
      /\ access' = access /\ primed' = primed
      /\ last_money' = last_money /\ last_stats' = last_stats /\ injected' = injected
      /\ money_read' = money_read /\ floor' = floor /\ gap' = gap /\ found' = found
      /\ recent' = recent /\ paid' = paid
      /\ clean' = clean /\ strange' = strange /\ touched' = touched
  BY DEF WriteValue, client, baseline, report
<1>3. /\ f = "money" => money' = money + Prize /\ stats' = stats
      /\ f # "money" => stats' = [stats EXCEPT ![f] = target[f]] /\ money' = money
  BY DEF WriteValue
<1>4. /\ stats \in Counters /\ target \in Counters /\ DOMAIN stats = Fields
      /\ DOMAIN target = Fields
      /\ f \in Fields \cup {"money"} /\ "money" \notin Fields
      /\ money \in Int /\ Prize \in Nat /\ smudge \in {"no", "yes"}
  BY <1>1, CountersFacts, MoneyAssumption DEF WatcherTypes, Fields
<1>5. f # "money" =>
         /\ stats' \in Counters
         /\ \A g \in Fields : stats'[g] = IF g = f THEN target[g] ELSE stats[g]
  <2> SUFFICES ASSUME f \in Fields
               PROVE  /\ stats' \in Counters
                      /\ \A g \in Fields : stats'[g] = IF g = f THEN target[g] ELSE stats[g]
    BY <1>4
  <2>1. stats' = [stats EXCEPT ![f] = target[f]]
    BY <1>3, <1>4
  <2>2. /\ DOMAIN stats' = Fields
        /\ \A g \in Fields : stats'[g] = IF g = f THEN target[g] ELSE stats[g]
    BY <1>4, <2>1
  <2>3. \A g \in Fields : stats'[g] = stats[g] \/ stats'[g] = target[g]
    BY <2>2
  <2>4. stats' \in Counters
    <3>1. /\ stats'.wins \in Nat /\ stats'.earnings \in Nat /\ stats'.tournaments \in Nat
          /\ stats'.total \in Nat /\ stats'.best \in [Routes -> Nat]
          /\ stats'.city \in [Cities -> Nat]
      BY <1>4, <2>3, CountersFacts DEF Fields
    <3>2. stats' = [g \in Fields |-> stats'[g]]
      BY <1>4, <2>1, <2>2
    <3> QED
      BY <3>1, <3>2 DEF Counters, Fields
  <2> QED
    BY <2>2, <2>4
<1>6. \A g \in Fields : \/ stats'[g] = stats[g] /\ (g \in left' <=> g \in left)
                        \/ stats'[g] = target[g] /\ g \notin left' /\ g \in left
  BY <1>2, <1>3, <1>4, <1>5
<1>7. WatcherTypes'
  <2>1. money' \in Int /\ smudge' \in {"no", "yes"} /\ stats' \in Counters
    BY <1>2, <1>3, <1>4, <1>5 DEF Smudged
  <2> QED
    BY <1>1, <1>2, <2>1 DEF WatcherTypes
<1>8. Written'
  <2>1. \A g \in Fields \ left' : stats'[g] = target[g]
    BY <1>1, <1>6 DEF Written
  <2>2. target.earnings = stats'.earnings + (IF "earnings" \in left' THEN Prize ELSE 0)
    <3>1. \/ /\ stats'["earnings"] = stats["earnings"]
             /\ "earnings" \in left' <=> "earnings" \in left
          \/ stats'["earnings"] = target["earnings"] /\ "earnings" \notin left'
      BY <1>6 DEF Fields
    <3>2. target.earnings \in Nat
      BY <1>4, CountersFacts
    <3> QED
      BY <1>1, <3>1, <3>2 DEF Written
  <2> QED
    BY <1>1, <1>2, <2>1, <2>2 DEF Written
<1>9. Progress'
  BY <1>1, <1>2 DEF Progress
<1>10. Untouched'
  <2> SUFFICES ASSUME NEW r \in Routes \ touched
               PROVE  /\ stats'.best[r] = target.best[r]
                      /\ strange = "no" /\ primed = "yes" => last_stats.best[r] = stats'.best[r]
    BY <1>2 DEF Untouched
  <2>1. stats'["best"] = stats["best"] \/ stats'["best"] = target["best"]
    BY <1>6 DEF Fields
  <2> QED
    BY <1>1, <2>1 DEF Untouched
<1>11. Reads' /\ Balance'
  <2> SUFFICES ASSUME smudge' = "no" PROVE Reads' /\ Balance'
    BY DEF Reads, Balance
  <2>1. access = "idle" /\ smudge = "no"
    BY <1>2 DEF Smudged
  <2>2. Reads'
    BY <1>2, <2>1 DEF Reads
  <2>3. money' + Owed' = money + Owed
    BY <1>2, <1>3, <1>4 DEF Owed
  <2>4. Balance'
    BY ONLY <1>1, <1>2, <2>1, <2>3 DEF Balance
  <2> QED
    BY <2>2, <2>4
<1> QED
  BY <1>7, <1>8, <1>9, <1>10, <1>11 DEF WatcherInv

\* The first read of a poll.
LEMMA PollMoneyKeeps ==
    ASSUME WatcherInv, PollMoney
    PROVE  WatcherInv'
<1>1. WatcherTypes /\ Balance
  BY DEF WatcherInv
<1>2. /\ money_read' = money /\ found' = {} /\ access' = "stats"
      /\ money' = money /\ stats' = stats /\ readable' = readable
      /\ left' = left /\ target' = target /\ primed' = primed
      /\ last_money' = last_money /\ last_stats' = last_stats /\ injected' = injected
      /\ floor' = floor /\ gap' = gap /\ recent' = recent /\ paid' = paid
      /\ clean' = clean /\ smudge' = smudge /\ strange' = strange /\ touched' = touched
  BY DEF PollMoney, profile, baseline, history
<1>3. WatcherTypes'
  BY <1>1, <1>2 DEF WatcherTypes, Places
<1>4. Written' /\ Untouched' /\ Progress'
  BY <1>2, SameStats
<1>5. Reads' /\ Balance'
  BY <1>1, <1>2 DEF Reads, Balance, Owed
<1> QED
  BY <1>3, <1>4, <1>5 DEF WatcherInv

\* The accesses of apply_money_total: what is injected is accounted for.
LEMMA ApplyKeeps ==
    ASSUME WatcherInv,
           (\E total \in 0..MaxFloor : ApplyTotal(total)) \/ ReadGap \/ WriteWallet
    PROVE  WatcherInv'
<1>1. WatcherTypes /\ Balance /\ Reads
  BY DEF WatcherInv
<1>2. /\ stats' = stats /\ readable' = readable
      /\ left' = left /\ target' = target /\ primed' = primed
      /\ last_money' = last_money /\ last_stats' = last_stats
      /\ money_read' = money_read /\ recent' = recent /\ paid' = paid /\ found' = found
      /\ clean' = clean /\ smudge' = smudge /\ strange' = strange /\ touched' = touched
  BY DEF ApplyTotal, ReadGap, WriteWallet, profile, baseline, report, history
<1>3. Written' /\ Untouched' /\ Progress'
  BY <1>2, SameStats
<1>5. /\ money \in Int /\ injected \in Int /\ floor \in Int /\ gap \in Int
      /\ last_money \in Int
  BY <1>1, MovesAssumption DEF WatcherTypes
<1>6. ASSUME NEW total \in 0..MaxFloor, ApplyTotal(total)
      PROVE  WatcherTypes' /\ Reads' /\ Balance'
  <2>1. /\ floor' = Floor(total) /\ access' \in {"gap", "idle"}
        /\ money' = money /\ injected' = injected /\ gap' = gap
    BY <1>6 DEF ApplyTotal, profile
  <2>2. Floor(total) \in 0..MaxFloor
    <3>1. floor \in 0..MaxFloor /\ MaxFloor \in Nat
      BY <1>1, MovesAssumption DEF WatcherTypes
    <3> QED
      BY <1>6, <3>1, MaxOfTwo DEF Floor
  <2>3. WatcherTypes'
    BY <1>1, <1>2, <2>1, <2>2 DEF WatcherTypes, Places
  <2> QED
    BY <1>1, <1>2, <2>1, <2>3 DEF Reads, Balance, Owed
<1>7. CASE ReadGap
  <2>1. /\ gap' = floor - money /\ access' = "write"
        /\ money' = money /\ injected' = injected /\ floor' = floor
    BY <1>7 DEF ReadGap, profile
  <2>2. WatcherTypes'
    BY <1>1, <1>2, <1>5, <2>1 DEF WatcherTypes, Places
  <2> QED
    BY <1>1, <1>2, <1>3, <2>1, <2>2 DEF WatcherInv, Reads, Balance, Owed
<1>8. CASE WriteWallet
  <2>1. /\ access = "write" /\ access' = "idle" /\ gap' = 0
        /\ money' = floor /\ injected' = injected + gap /\ floor' = floor
    BY <1>8 DEF WriteWallet
  <2>2. WatcherTypes'
    BY <1>1, <1>2, <1>5, <2>1 DEF WatcherTypes, Places
  <2>3. Reads'
    BY <2>1 DEF Reads
  <2>4. Balance'
    <3> SUFFICES ASSUME clean = "yes", smudge = "no" PROVE Balance'
      BY <1>2 DEF Balance
    <3>1. gap = floor - money
      BY <1>1, <2>1 DEF Reads
    <3>2. Owed \in Int /\ Owed' = Owed
      BY <1>2, MoneyAssumption DEF Owed
    <3>3. ((floor + Owed) - last_money) - (injected + gap)
             = ((money + Owed) - last_money) - injected
      BY <1>5, <3>1, <3>2
    <3>4. ((money + Owed) - last_money) - injected
             = (target.earnings - last_stats.earnings) - paid
      BY <1>1 DEF Balance
    <3> QED
      BY ONLY <1>2, <2>1, <3>2, <3>3, <3>4 DEF Balance
  <2> QED
    BY <1>3, <2>2, <2>3, <2>4 DEF WatcherInv
<1> QED
  BY <1>3, <1>6, <1>7, <1>8 DEF WatcherInv
-----------------------------------------------------------------------------
(* The poll.                                                               *)
LEMMA NoStatsFacts == NoStats \in Counters
<1>1. /\ [r \in Routes |-> 0] \in [Routes -> Nat]
      /\ [c \in Cities |-> 0] \in [Cities -> Nat]
  OBVIOUS
<1> QED
  BY <1>1 DEF NoStats, Counters

\* The end of a poll: what was read is what the next poll compares with.
LEMMA PollStatsKeeps ==
    ASSUME WatcherInv, PollStats
    PROVE  WatcherInv'
<1> DEFINE settled == smudge = "no" /\ readable = "yes" /\ left = {}
<1>1. WatcherTypes /\ Written /\ Progress /\ Reads /\ Untouched
  BY DEF WatcherInv
<1>2. /\ access = "stats" /\ found' = Checks(Snapshot)
      /\ injected' = 0 /\ last_stats' = Snapshot /\ last_money' = money_read
      /\ money_read' = 0 /\ primed' = "yes" /\ access' = "idle"
      /\ clean' = IF settled THEN "yes" ELSE "no"
      /\ strange' = IF readable = "yes" THEN "no" ELSE "yes"
      /\ recent' = <<>> /\ paid' = 0 /\ smudge' = "no"
      /\ money' = money /\ stats' = stats /\ readable' = readable
      /\ left' = left /\ target' = target
      /\ floor' = floor /\ gap' = gap /\ touched' = touched
  BY DEF PollStats, profile
<1>3. /\ Snapshot \in Counters
      /\ readable = "yes" => Snapshot = stats
  BY <1>1, NoStatsFacts DEF Snapshot, WatcherTypes
<1>4. WatcherTypes'
  <2>1. recent' \in Seq(Moves) /\ paid' \in Nat /\ injected' \in Int /\ money_read' \in Int
    BY <1>2
  <2>2. /\ {readable', primed', clean', smudge', strange'} \subseteq {"no", "yes"}
        /\ access' \in Places
    BY <1>1, <1>2 DEF WatcherTypes, Places
  <2> QED
    BY <1>1, <1>2, <1>3, <2>1, <2>2 DEF WatcherTypes
<1>5. Written'
  BY <1>1, <1>2 DEF Written
<1>6. settled =>
         /\ Snapshot = stats
         /\ stats.wins = target.wins /\ stats.earnings = target.earnings
         /\ stats.tournaments = target.tournaments /\ stats.total = target.total
         /\ stats.best = target.best /\ stats.city = target.city
  BY <1>1, <1>3, StatsAreTarget
<1>7. Len(recent') = 0
  BY <1>2
<1>8. Progress'
  <2> SUFFICES ASSUME settled PROVE Progress'
    BY <1>2 DEF Progress
  <2>1. ~ \E i \in 1..Len(recent') : TRUE
    BY <1>7
  <2> QED
    BY <1>2, <1>6, <2>1 DEF Progress, Raised, Improved
<1>9. Reads'
  BY <1>2 DEF Reads
<1>10. Balance'
  <2> SUFFICES ASSUME settled PROVE Balance'
    BY <1>2 DEF Balance
  <2>1. money_read = money
    BY <1>1, <1>2 DEF Reads
  <2>2. money \in Int /\ target.earnings \in Nat
    BY <1>1, CountersFacts DEF WatcherTypes
  <2>3. Owed' = 0
    BY <1>2 DEF Owed
  <2> QED
    BY <1>2, <1>6, <2>1, <2>2, <2>3 DEF Balance
<1>11. Untouched'
  <2> SUFFICES ASSUME NEW r \in Routes \ touched
               PROVE  /\ stats.best[r] = target.best[r]
                      /\ strange' = "no" => Snapshot.best[r] = stats.best[r]
    BY <1>2 DEF Untouched
  <2> QED
    BY <1>1, <1>2, <1>3 DEF Untouched
<1> QED
  BY <1>4, <1>5, <1>8, <1>9, <1>10, <1>11 DEF WatcherInv

\* The cities where a logo was collected.
LEMMA VisitedFacts ==
    ASSUME recent \in Seq(Moves)
    PROVE  /\ \A p : p \in Visited <=> \E i \in 1..Len(recent) : Took(recent[i], p)
           /\ Visited \subseteq Cities
           /\ Visited # {} <=> \E i \in 1..Len(recent) : recent[i].move = "collect"
<1>1. \A m : m \in Range(recent) <=> \E i \in 1..Len(recent) : m = recent[i]
  BY DEF Range
<1>2. \A i \in 1..Len(recent) : recent[i] \in Moves
  OBVIOUS
<1>3. \A p : p \in Visited <=> \E i \in 1..Len(recent) : Took(recent[i], p)
  BY <1>1 DEF Visited, Took
<1>4. Visited \subseteq Cities
  BY <1>2, <1>3 DEF Took, Moves
<1>5. Visited # {} <=> \E i \in 1..Len(recent) : recent[i].move = "collect"
  BY <1>3 DEF Took
<1> QED
  BY <1>3, <1>4, <1>5

\* What an undisturbed poll compares: the values that moves changed are larger
\* than those of the poll before, the others are the same.
LEMMA Compared ==
    ASSUME WatcherInv, PollStats, Undisturbed
    PROVE  /\ found' = RouteChecks(stats) \cup CollectibleChecks(stats)
                          \cup TournamentChecks(stats)
           /\ RouteChecks(stats) =
                 {<<"route", r, 0>> : r \in {q \in Routes :
                     /\ \E i \in 1..Len(recent) : Won1(recent[i])
                     /\ \E i \in 1..Len(recent) : Bettered(recent[i], q)}}
           /\ (\E i \in 1..Len(recent) : Cup(recent[i])) =>
                 TournamentChecks(stats) = {<<"tournament", stats.tournaments, 0>>}
           /\ ~(\E i \in 1..Len(recent) : Cup(recent[i])) => TournamentChecks(stats) = {}
           /\ (\E i \in 1..Len(recent) : recent[i].move = "collect") =>
                 CollectibleChecks(stats) =
                    {<<"collectible", Min(Visited), SumFunctionOnSet(stats.city, Cities)>>}
           /\ ~(\E i \in 1..Len(recent) : recent[i].move = "collect") =>
                 CollectibleChecks(stats) = {}
<1>1. WatcherTypes /\ Written /\ Progress /\ clean = "yes" /\ left = {} /\ readable = "yes"
  BY DEF WatcherInv, Undisturbed
<1>2. /\ primed = "yes"
      /\ stats.wins = target.wins /\ stats.tournaments = target.tournaments
      /\ stats.total = target.total /\ stats.best = target.best /\ stats.city = target.city
  BY <1>1, StatsAreTarget DEF Progress
<1>3. /\ stats \in Counters /\ last_stats \in Counters /\ recent \in Seq(Moves)
  BY <1>1 DEF WatcherTypes
<1>4. /\ stats.wins \in Nat /\ stats.tournaments \in Nat /\ stats.total \in Nat
      /\ stats.best \in [Routes -> Nat] /\ stats.city \in [Cities -> Nat]
      /\ last_stats.wins \in Nat /\ last_stats.tournaments \in Nat
      /\ last_stats.total \in Nat /\ last_stats.best \in [Routes -> Nat]
      /\ last_stats.city \in [Cities -> Nat]
  BY <1>3, CountersFacts
<1>5. found' = RouteChecks(stats) \cup CollectibleChecks(stats) \cup TournamentChecks(stats)
  BY <1>1, <1>2 DEF PollStats, Snapshot, Checks, HasBaseline
<1>6. /\ (\E i \in 1..Len(recent) : Won1(recent[i])) <=> Won(stats)
      /\ (\E i \in 1..Len(recent) : Cup(recent[i])) =>
            stats.tournaments > last_stats.tournaments
      /\ ~(\E i \in 1..Len(recent) : Cup(recent[i])) =>
            stats.tournaments = last_stats.tournaments
      /\ (\E i \in 1..Len(recent) : recent[i].move = "collect") =>
            stats.total > last_stats.total
      /\ ~(\E i \in 1..Len(recent) : recent[i].move = "collect") =>
            stats.total = last_stats.total
  <2>1. /\ Raised(stats.wins, last_stats.wins, \E i \in 1..Len(recent) : Won1(recent[i]))
        /\ Raised(stats.tournaments, last_stats.tournaments,
                  \E i \in 1..Len(recent) : Cup(recent[i]))
        /\ Raised(stats.total, last_stats.total,
                  \E i \in 1..Len(recent) : recent[i].move = "collect")
    BY <1>1, <1>2 DEF Progress
  <2> QED
    BY <1>4, <2>1 DEF Raised, Won
<1>7. \A r \in Routes : (\E i \in 1..Len(recent) : Bettered(recent[i], r)) <=>
                           stats.best[r] \notin {0, last_stats.best[r]}
  <2> TAKE r \in Routes
  <2>1. Improved(stats.best[r], last_stats.best[r],
                 \E i \in 1..Len(recent) : Bettered(recent[i], r))
    BY <1>1, <1>2 DEF Progress
  <2>2. stats.best[r] \in Nat /\ last_stats.best[r] \in Nat
    BY <1>4
  <2> QED
    BY <2>1, <2>2 DEF Improved
<1>8. \A p \in Cities : (\E i \in 1..Len(recent) : Took(recent[i], p)) <=>
                           stats.city[p] # last_stats.city[p]
  <2> TAKE p \in Cities
  <2>1. Raised(stats.city[p], last_stats.city[p],
               \E i \in 1..Len(recent) : Took(recent[i], p))
    BY <1>1, <1>2 DEF Progress
  <2>2. stats.city[p] \in Nat /\ last_stats.city[p] \in Nat
    BY <1>4
  <2> QED
    BY <2>1, <2>2 DEF Raised
<1>9. RouteChecks(stats) =
         {<<"route", r, 0>> : r \in {q \in Routes :
             /\ \E i \in 1..Len(recent) : Won1(recent[i])
             /\ \E i \in 1..Len(recent) : Bettered(recent[i], q)}}
  <2>1. {q \in Routes : Won(stats) /\ stats.best[q] \notin {0, last_stats.best[q]}}
           = {q \in Routes : /\ \E i \in 1..Len(recent) : Won1(recent[i])
                             /\ \E i \in 1..Len(recent) : Bettered(recent[i], q)}
    BY <1>6, <1>7
  <2> QED
    BY <2>1 DEF RouteChecks
<1>10. /\ (\E i \in 1..Len(recent) : Cup(recent[i])) =>
             TournamentChecks(stats) = {<<"tournament", stats.tournaments, 0>>}
       /\ ~(\E i \in 1..Len(recent) : Cup(recent[i])) => TournamentChecks(stats) = {}
  <2>1. stats.tournaments > last_stats.tournaments =>
           stats.tournaments \notin {0, last_stats.tournaments}
    BY <1>4
  <2> QED
    BY <1>6, <2>1 DEF TournamentChecks
<1>11. ~(\E i \in 1..Len(recent) : recent[i].move = "collect") => CollectibleChecks(stats) = {}
  BY <1>6 DEF CollectibleChecks
<1>12. ASSUME \E i \in 1..Len(recent) : recent[i].move = "collect"
       PROVE  CollectibleChecks(stats) =
                 {<<"collectible", Min(Visited), SumFunctionOnSet(stats.city, Cities)>>}
  <2> DEFINE changed == {c \in Cities : stats.city[c] # last_stats.city[c]}
  <2>1. Visited = changed
    BY <1>3, <1>8, VisitedFacts
  <2>2. Visited # {}
    BY <1>3, <1>12, VisitedFacts
  <2>3. ChangedCity(stats) = Min(changed)
    BY <2>1, <2>2 DEF ChangedCity
  <2>4. stats.total \notin {0, last_stats.total}
    BY <1>4, <1>6, <1>12
  <2> QED
    BY <2>1, <2>3, <2>4 DEF CollectibleChecks
<1> QED
  BY <1>5, <1>9, <1>10, <1>11, <1>12

\* What an undisturbed poll reports as spent.
LEMMA SpentFacts ==
    ASSUME WatcherInv, PollStats, Undisturbed
    PROVE  spent' = paid
<1>1. /\ WatcherTypes /\ Written /\ Progress /\ Reads /\ Balance
      /\ clean = "yes" /\ smudge = "no" /\ left = {} /\ readable = "yes" /\ access = "stats"
  BY DEF WatcherInv, Undisturbed
<1>2. primed = "yes" /\ stats.earnings = target.earnings /\ money_read = money
  BY <1>1, StatsAreTarget DEF Progress, Reads
<1>3. /\ money \in Int /\ last_money \in Int /\ injected \in Int /\ paid \in Nat
      /\ stats.earnings \in Nat /\ last_stats.earnings \in Nat
  BY <1>1, CountersFacts DEF WatcherTypes
<1>4. (money - last_money) - injected = (stats.earnings - last_stats.earnings) - paid
  <2>1. Owed = 0
    BY <1>1 DEF Owed
  <2>2. ((money + Owed) - last_money) - injected
           = (target.earnings - last_stats.earnings) - paid
    BY <1>1 DEF Balance
  <2>3. money + 0 = money
    BY <1>3
  <2> QED
    BY ONLY <1>2, <2>1, <2>2, <2>3
<1>5. (stats.earnings - last_stats.earnings) - ((money - last_money) - injected) = paid
  BY <1>3, <1>4
<1>6. spent' = Max({0, paid})
  BY <1>1, <1>2, <1>5 DEF PollStats, Snapshot, Spent, HasBaseline, WalletDelta
<1> QED
  BY <1>3, <1>6, MaxOfTwo

\* The logos of all cities are those of one if the others have none.
LEMMA OneCitysLogos ==
    ASSUME NEW f \in [Cities -> Nat], NEW p \in Cities, \A c \in Cities \ {p} : f[c] = 0
    PROVE  SumFunctionOnSet(f, Cities) = f[p]
<1>1. IsFiniteSet(Cities) /\ IsFiniteSet(Cities \ {p})
  BY CitiesFacts, FS_Subset
<1>2. SumFunctionOnSet(f, Cities) = f[p] + SumFunctionOnSet(f, Cities \ {p})
  BY <1>1, SumOverSet
<1>3. SumFunctionOnSet(f, Cities \ {p}) = 0
  BY <1>1, SumOfZeros
<1>4. f[p] \in Nat
  OBVIOUS
<1> QED
  BY <1>2, <1>3, <1>4

\* What an undisturbed poll reports, whatever was done and in whatever order.
LEMMA Reported ==
    ASSUME WatcherInv, PollStats, Undisturbed
    PROVE  \E logos \in SUBSET found' :
              /\ found' = DueRoutes \cup DueTournaments \cup logos
              /\ Cardinality(logos) = IF Visited = {} THEN 0 ELSE 1
              /\ \A k \in logos : LogoDue(k)
<1> DEFINE logos == CollectibleChecks(stats)
<1>1. recent \in Seq(Moves) /\ stats.city \in [Cities -> Nat]
  BY CountersFacts DEF WatcherInv, WatcherTypes
<1>2. \A m : m \in Range(recent) <=> \E i \in 1..Len(recent) : m = recent[i]
  BY <1>1 DEF Range
<1>3. \A i \in 1..Len(recent) : recent[i] \in Moves
  BY <1>1
<1>4. RouteChecks(stats) = DueRoutes
  <2>1. (\E i \in 1..Len(recent) : Won1(recent[i]))
           <=> \E m \in Range(recent) : m.move = "race" /\ m.won
    BY <1>2 DEF Won1
  <2>2. {q \in Routes : \E i \in 1..Len(recent) : Bettered(recent[i], q)}
           = {m.id : m \in {n \in Range(recent) : n.better}}
    <3>1. \A i \in 1..Len(recent) :
             recent[i].better => recent[i].move = "race" /\ recent[i].id \in Routes
      BY <1>3 DEF Moves
    <3> QED
      BY <1>2, <3>1 DEF Bettered
  <2>3. RouteChecks(stats) =
           {<<"route", r, 0>> : r \in {q \in Routes :
               /\ \E i \in 1..Len(recent) : Won1(recent[i])
               /\ \E i \in 1..Len(recent) : Bettered(recent[i], q)}}
    BY Compared
  <2>4. CASE \E i \in 1..Len(recent) : Won1(recent[i])
    <3>1. RouteChecks(stats) = {<<"route", r, 0>> : r \in
             {q \in Routes : \E i \in 1..Len(recent) : Bettered(recent[i], q)}}
      BY <2>3, <2>4
    <3>2. RouteChecks(stats) = {<<"route", r, 0>> : r \in
             {m.id : m \in {n \in Range(recent) : n.better}}}
      BY <2>2, <3>1
    <3> QED
      BY <2>1, <2>4, <3>2 DEF DueRoutes
  <2>5. CASE ~ \E i \in 1..Len(recent) : Won1(recent[i])
    BY <2>1, <2>3, <2>5 DEF DueRoutes
  <2> QED
    BY <2>4, <2>5
<1>5. TournamentChecks(stats) = DueTournaments
  <2>1. (\E i \in 1..Len(recent) : Cup(recent[i]))
           <=> \E m \in Range(recent) : m.move = "tournament"
    BY <1>2 DEF Cup
  <2> QED
    BY <2>1, Compared DEF DueTournaments
<1>6. found' = DueRoutes \cup DueTournaments \cup logos
  BY <1>4, <1>5, Compared
<1>7. CASE Visited = {}
  <2>1. logos = {} /\ Cardinality({}) = 0
    BY <1>1, <1>7, VisitedFacts, Compared, FS_EmptySet
  <2> QED
    BY <1>6, <1>7, <2>1
<1>8. CASE Visited # {}
  <2> DEFINE k == <<"collectible", Min(Visited), SumFunctionOnSet(stats.city, Cities)>>
  <2>1. logos = {k}
    BY <1>1, <1>8, VisitedFacts, Compared
  <2>2. Min(Visited) \in Cities
    <3>1. Visited \in SUBSET Nat /\ IsFiniteSet(Visited) /\ Visited \subseteq Cities
      BY <1>1, VisitedFacts, CitiesFacts, FS_Subset
    <3> QED
      BY <1>8, <3>1, LeastAndGreatest
  <2>3. (\A c \in Cities \ {Min(Visited)} : stats.city[c] = 0)
           => SumFunctionOnSet(stats.city, Cities) = stats.city[Min(Visited)]
    BY <1>1, <2>2, OneCitysLogos
  <2>4. LogoDue(k)
    BY <2>3 DEF LogoDue
  <2> HIDE DEF k, logos
  <2>5. Cardinality(logos) = 1
    BY <2>1, FS_Singleton
  <2>6. logos \in SUBSET found' /\ \A x \in logos : LogoDue(x)
    BY <1>6, <2>1, <2>4
  <2> QED
    BY <1>6, <1>8, <2>5, <2>6
<1> QED
  BY <1>7, <1>8
-----------------------------------------------------------------------------
\* The invariant holds when the client starts.
LEMMA WatcherInitInv == WatcherInit => WatcherInv
<1> SUFFICES ASSUME WatcherInit PROVE WatcherInv
  OBVIOUS
<1>1. stats \in Profiles /\ target = stats /\ last_stats = NoStats
  BY DEF WatcherInit
<1>2. /\ stats \in Counters /\ stats.earnings = 0 /\ stats.total = 0
      /\ SumFunctionOnSet(stats.city, Cities) = 0
  BY <1>1, ProfileFacts
<1>3. WatcherTypes
  <2>1. /\ money \in Int /\ last_money \in Int /\ injected \in Int
        /\ money_read \in Int /\ gap \in Int /\ floor \in 0..MaxFloor /\ paid \in Nat
        /\ left \subseteq Fields \cup {"money"} /\ access \in Places
        /\ {readable, primed, clean, smudge, strange} \subseteq {"no", "yes"}
        /\ recent \in Seq(Moves) /\ touched \subseteq Routes
    BY MovesAssumption DEF WatcherInit, Places
  <2> QED
    BY <1>1, <1>2, <2>1, NoStatsFacts DEF WatcherTypes
<1>4. Written
  BY <1>1, <1>2 DEF Written, WatcherInit
<1>5. Progress /\ Reads /\ Balance /\ Untouched
  BY DEF Progress, Reads, Balance, Untouched, Owed, WatcherInit
<1> QED
  BY <1>3, <1>4, <1>5 DEF WatcherInv

\* Every step of the game and of the client keeps it.
LEMMA WatcherNextInv == WatcherInv /\ [WatcherNext]_watcherVars => WatcherInv'
<1> SUFFICES ASSUME WatcherInv, [WatcherNext]_watcherVars PROVE WatcherInv'
  OBVIOUS
<1>1. CASE Player
  BY <1>1, FinishRaceKeeps, CollectKeeps, WinTournamentKeeps, SpendKeeps,
     TurnCatalogKeeps, LoadProfileKeeps DEF Player
<1>2. CASE \E f \in left : WriteValue(f)
  BY <1>2, WriteValueKeeps
<1>3. CASE PollMoney \/ PollStats
  BY <1>3, PollMoneyKeeps, PollStatsKeeps
<1>4. CASE (\E total \in 0..MaxFloor : ApplyTotal(total)) \/ ReadGap \/ WriteWallet
  BY <1>4, ApplyKeeps
<1>5. CASE UNCHANGED watcherVars
  BY <1>5 DEF watcherVars, profile, baseline, report, history, WatcherInv, WatcherTypes,
              Written, Progress, Reads, Balance, Owed, Untouched
<1> QED
  BY <1>1, <1>2, <1>3, <1>4, <1>5 DEF WatcherNext

\* GameWatcher.OnlyNewProgressFires, for any routes, moves, polls and profiles:
\* from Untouched, the time of a route not finished is what the last poll read.
THEOREM OnlyNewProgressTheorem == WatcherSpec => OnlyNewProgressFires
<1> DEFINE Fresh1 == (PollStats /\ strange = "no") =>
                        \A k \in found' : k[1] = "route" => k[2] \in touched
<1>1. WatcherInv => Fresh1
  <2> SUFFICES ASSUME WatcherInv, PollStats, strange = "no",
                      NEW x \in found', x[1] = "route"
               PROVE  x[2] \in touched
    OBVIOUS
  <2>1. found' = Checks(Snapshot) /\ WatcherTypes /\ Untouched
    BY DEF PollStats, WatcherInv
  <2>2. x \in RouteChecks(Snapshot) /\ primed = "yes"
    BY <2>1 DEF Checks, CollectibleChecks, TournamentChecks, HasBaseline
  <2>3. PICK r \in Routes : /\ x = <<"route", r, 0>>
                            /\ Snapshot.best[r] \notin {0, last_stats.best[r]}
    BY <2>2 DEF RouteChecks
  <2>4. Snapshot = stats
    <3>1. NoStats.best[r] = 0
      BY DEF NoStats
    <3> QED
      BY <2>3, <3>1 DEF Snapshot
  <2>5. r \in touched
    BY <2>1, <2>2, <2>3, <2>4 DEF Untouched
  <2> QED
    BY <2>3, <2>5
<1>2. WatcherInv /\ [WatcherNext]_watcherVars => [Fresh1]_watcherVars
  BY <1>1
<1>3. WatcherSpec => [][Fresh1]_watcherVars
  BY WatcherInitInv, WatcherNextInv, <1>2, PTL DEF WatcherSpec
<1> QED
  BY <1>3 DEF OnlyNewProgressFires

\* GameWatcher.SpendingIsExact: from Balance, whatever was earned, injected and
\* paid since the last clean poll, and in whatever order it was written.
THEOREM SpendingIsExactTheorem == WatcherSpec => SpendingIsExact
<1>1. WatcherInv /\ [WatcherNext]_watcherVars =>
         [(PollStats /\ Undisturbed) => spent' = paid]_watcherVars
  BY SpentFacts
<1> QED
  BY WatcherInitInv, WatcherNextInv, <1>1, PTL DEF WatcherSpec, SpendingIsExact

\* GameWatcher.PollReportsMoves: from Progress, whatever the order in which the
\* values of a result are written.
THEOREM PollReportsMovesTheorem == WatcherSpec => PollReportsMoves
<1>1. WatcherInv /\ [WatcherNext]_watcherVars =>
         [(PollStats /\ Undisturbed) =>
            \E logos \in SUBSET found' :
               /\ found' = DueRoutes \cup DueTournaments \cup logos
               /\ Cardinality(logos) = IF Visited = {} THEN 0 ELSE 1
               /\ \A k \in logos : LogoDue(k)]_watcherVars
  BY Reported
<1> QED
  BY WatcherInitInv, WatcherNextInv, <1>1, PTL DEF WatcherSpec, PollReportsMoves
=============================================================================
