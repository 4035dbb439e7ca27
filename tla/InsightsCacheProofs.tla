------------------------- MODULE InsightsCacheProofs -------------------------
(***************************************************************************)
(* What holds of InsightsCache for any keys, callers, tasks and limits.    *)
(***************************************************************************)
EXTENDS InsightsCache, FiniteSetTheorems, SequenceTheorems, TLAPS

USE KeysAssumption, NoneAssumption, BoundsAssumption, BackgroundAssumption

(* As much of the type of the tasks as the computations need. *)
TaskTypes ==
  /\ inflight \in [Keys -> Tasks \cup {None}]
  /\ task \in [Tasks -> [key: Keys \cup {None}, phase: Phases, result: Values \cup {None}]]

(* What is under way is under way for a key. *)
LiveHasKey == \A t \in Tasks : Live(t) => task[t].key \in Keys

FlightInv == TaskTypes /\ LiveHasKey /\ SingleFlight

(* Starting a computation where none is under way, or finding the one that is. *)
LEMMA RefreshFlight ==
  ASSUME FlightInv, NEW k \in Keys, NEW t \in Tasks, Refresh(k, t)
  PROVE  FlightInv'
<1>1. CASE UNCHANGED tasks
  BY <1>1 DEF FlightInv, TaskTypes, LiveHasKey, SingleFlight, Live, tasks
<1>2. CASE ~Running(k) /\ Start(k, t)
  <2>1. TaskTypes'
    BY <1>2 DEF Start, FlightInv, TaskTypes, Phases
  <2>2. /\ task'[t] = [key |-> k, phase |-> "queued", result |-> None]
        /\ \A u \in Tasks \ {t} : task'[u] = task[u]
        /\ inflight'[k] = t
        /\ \A x \in Keys \ {k} : inflight'[x] = inflight[x]
    BY <1>2 DEF Start, FlightInv, TaskTypes
  <2>3. \A u \in Tasks : Live(u) => task[u].key \in Keys \ {k}
    BY <1>2 DEF Running, FlightInv, LiveHasKey, SingleFlight
  <2>4. \A u \in Tasks \ {t} : Live(u)' <=> Live(u)
    BY <2>2 DEF Live
  <2>5. LiveHasKey'
    BY <2>2, <2>3, <2>4 DEF LiveHasKey
  <2>6. SingleFlight'
    <3> SUFFICES ASSUME NEW u \in Tasks, Live(u)' PROVE inflight'[task'[u].key] = u
      BY DEF SingleFlight
    <3>1. CASE u = t
      BY <2>2, <3>1
    <3>2. CASE u # t
      BY <2>2, <2>3, <2>4, <3>2 DEF FlightInv, SingleFlight
    <3> QED BY <3>1, <3>2
  <2> QED BY <2>1, <2>5, <2>6 DEF FlightInv
<1> QED BY <1>1, <1>2 DEF Refresh

(* A task that goes on, or ends, keeps its key and its place. *)
LEMMA TaskFlight ==
  ASSUME FlightInv, NEW t \in Tasks, NEW r, TaskTypes', inflight' = inflight,
         task' = [task EXCEPT ![t] = r], r.key = task[t].key,
         r.phase \in {"queued", "running", "read"} => Live(t)
  PROVE  FlightInv'
<1>1. \A u \in Tasks : task'[u].key = task[u].key /\ (Live(u)' => Live(u))
  BY DEF FlightInv, TaskTypes, Live
<1> QED BY <1>1 DEF FlightInv, LiveHasKey, SingleFlight

(* The callbacks of a finished task leave every live one registered. *)
LEMMA FinishedFlight ==
  ASSUME FlightInv, NEW t \in Tasks, Finished(t)
  PROVE  FlightInv'
<1>1. /\ task' = [task EXCEPT ![t] = NoTask]
      /\ inflight' = [k \in Keys |-> IF inflight[k] = t THEN None ELSE inflight[k]]
  BY DEF Finished, Forgotten
<1>2. TaskTypes'
  BY <1>1 DEF FlightInv, TaskTypes, NoTask, Phases
<1>3. \A u \in Tasks : Live(u)' => u # t /\ Live(u) /\ task'[u].key = task[u].key
  BY <1>1 DEF FlightInv, TaskTypes, Live, NoTask
<1> QED BY <1>1, <1>2, <1>3 DEF FlightInv, LiveHasKey, SingleFlight

LEMMA FlightStep ==
  ASSUME FlightInv, [Next]_vars
  PROVE  FlightInv'
<1>1. ASSUME NEW c \in Callers, NEW k \in Keys, AskCached(c, k) \/ AskMissing(c, k)
      PROVE  FlightInv'
  <2>1. CASE UNCHANGED tasks
    BY <2>1 DEF FlightInv, TaskTypes, LiveHasKey, SingleFlight, Live, tasks
  <2> QED BY <1>1, <2>1, RefreshFlight DEF AskCached, AskMissing
<1>2. ASSUME NEW t \in Tasks, TaskStep(t) PROVE FlightInv'
  <2>1. ASSUME Acquire(t) \/ Read(t) \/ Complete(t) \/ Raise(t), Live(t) PROVE FlightInv'
    <3>1. PICK p \in {"running", "read", "done", "raised"}, v \in Values \cup {None} :
             task' = [task EXCEPT ![t] = [key |-> task[t].key, phase |-> p, result |-> v]]
      BY <2>1 DEF Acquire, Read, Complete, Raise, FlightInv, TaskTypes, Values
    <3>2. TaskTypes'
      BY <2>1, <3>1 DEF Acquire, Read, Complete, Raise, FlightInv, TaskTypes, Phases
    <3>3. inflight' = inflight
      BY <2>1 DEF Acquire, Read, Complete, Raise
    <3> QED BY <2>1, <3>1, <3>2, <3>3, TaskFlight
  <2>2. CASE Finished(t)
    BY <2>2, FinishedFlight
  <2> QED BY <1>2, <2>1, <2>2 DEF TaskStep, Acquire, Read, Complete, Raise, Live
<1>3. CASE UNCHANGED <<inflight, task>>
  BY <1>3 DEF FlightInv, TaskTypes, LiveHasKey, SingleFlight, Live
<1> QED
  BY <1>1, <1>2, <1>3
  DEF tasks, Next, Change, Expire, Leave, RefresherStep, BeginPass, TakeTurn, RefresherRead,
      RefresherStore, RefresherFails, RefresherEnds, EndPause, StopWarmup, vars

(***************************************************************************)
(* Whatever the keys, the limits and the order of callbacks, a key never   *)
(* has two computations on behalf of callers, and the running one is the   *)
(* one the next caller finds.                                              *)
(***************************************************************************)
THEOREM SharedComputation == Spec => []SingleFlight
<1>1. Init => FlightInv
  BY DEF Init, FlightInv, TaskTypes, LiveHasKey, SingleFlight, Live, NoTask, Phases
<1>2. FlightInv /\ [Next]_vars => FlightInv'
  BY FlightStep
<1>3. FlightInv => SingleFlight
  BY DEF FlightInv
<1> QED BY <1>1, <1>2, <1>3, PTL DEF Spec

-----------------------------------------------------------------------------
(***************************************************************************)
(* What is computed but not stored read no less than the value it will     *)
(* replace.  For callers' computations that is single flight; between them *)
(* and the refresher it is Apart: unless a request doubled it, the key the *)
(* refresher computes has no other computation.                            *)
(***************************************************************************)
DataTypes == version \in Versions /\ value \in [Keys -> Values \cup {None}]

RefresherTypes ==
  /\ refresher \in [stage: Stages, pos: Nat, task: Tasks \cup {None}, result: Values \cup {None}]
  /\ refresher.stage \notin {"off", "sleep"} => refresher.pos \in DOMAIN DefaultKeys

NoFuture == \A k \in Keys : value[k] \in Versions => value[k] <= version

(* A result v for key k may be stored without making the value of k older. *)
Timely(v, k) ==
  v \in Versions =>
    /\ v <= version
    /\ k \notin doubled /\ value[k] \in Versions => value[k] <= v

ReadInTime == \A t \in Tasks : task[t].phase = "read" => Timely(task[t].result, task[t].key)
RefreshInTime == refresher.stage = "read" => Timely(refresher.result, Turn)

Apart ==
  \A k \in Keys \ doubled : Refreshing(k) => \A t \in Tasks : Live(t) => task[t].key # k

AgeInv ==
  FlightInv /\ DataTypes /\ RefresherTypes /\ NoFuture /\ ReadInTime /\ RefreshInTime /\ Apart

(* The promise of NeverOlder, for one step. *)
Younger ==
  \A k \in Keys \ doubled :
    value[k] \in Versions /\ value'[k] \in Versions => value[k] <= value'[k]

(* What storing does to the values, whatever it evicts. *)
LEMMA Stored ==
  ASSUME DataTypes, NEW k \in Keys, NEW v \in Values \cup {None}, Store(k, v)
  PROVE  /\ value' \in [Keys -> Values \cup {None}]
         /\ value'[k] = v
         /\ \A x \in Keys \ {k} : value'[x] = value[x] \/ value'[x] = None
BY DEF Store, DataTypes

(* The key whose turn it is. *)
LEMMA TurnIsAKey ==
  ASSUME RefresherTypes, refresher.stage \notin {"off", "sleep"}
  PROVE  Turn \in Keys
BY DEF RefresherTypes, Turn

(***************************************************************************)
(* A timely result is stored: the values stay within the data, nothing     *)
(* gets older, and what is timely for another key stays so.                *)
(***************************************************************************)
LEMMA StoreTimely ==
  ASSUME DataTypes, NoFuture, NEW k \in Keys, NEW v \in Values \cup {None}, Store(k, v),
         Timely(v, k), version' = version
  PROVE  /\ DataTypes' /\ NoFuture' /\ Younger
         /\ \A x \in Keys : \A r :
              Timely(r, x) /\ (x # k \/ x \in doubled') /\ x \notin doubled \ doubled' => Timely(r, x)'
<1> USE DEF Versions, Values, DataTypes
<1>1. /\ value' \in [Keys -> Values \cup {None}]
      /\ value'[k] = v
      /\ \A x \in Keys \ {k} : value'[x] = value[x] \/ value'[x] = None
  BY Stored
<1>2. DataTypes'
  BY <1>1
<1>3. NoFuture'
  BY <1>1 DEF NoFuture, Timely
<1>4. Younger
  BY <1>1 DEF Younger, Timely
<1>5. \A x \in Keys : \A r :
        Timely(r, x) /\ (x # k \/ x \in doubled') /\ x \notin doubled \ doubled' => Timely(r, x)'
  BY <1>1 DEF Timely
<1> QED BY <1>2, <1>3, <1>4, <1>5

(***************************************************************************)
(* Where nothing is stored, what was timely stays so as the data changes.  *)
(***************************************************************************)
LEMMA NothingStored ==
  ASSUME DataTypes, NoFuture, value' = value, version' \in Versions, version <= version'
  PROVE  /\ DataTypes' /\ NoFuture' /\ Younger
         /\ \A x \in Keys : \A r : Timely(r, x) /\ x \notin doubled \ doubled' => Timely(r, x)'
<1> USE DEF Versions
<1>1. DataTypes' /\ NoFuture'
  BY DEF DataTypes, NoFuture
<1>2. Younger
  BY DEF Younger, DataTypes
<1>3. \A x \in Keys : \A r : Timely(r, x) /\ x \notin doubled \ doubled' => Timely(r, x)'
  BY DEF Timely, DataTypes
<1> QED BY <1>1, <1>2, <1>3

(***************************************************************************)
(* What the invariant says beside the typing of the tasks, carried over a  *)
(* step that stores nothing; a key that is doubled no more has no result   *)
(* waiting to be stored.                                                   *)
(***************************************************************************)
LEMMA AgeKept ==
  ASSUME AgeInv, FlightInv', RefresherTypes', value' = value, version' \in Versions,
         version <= version',
         \A k \in doubled \ doubled' :
           /\ \A t \in Tasks : task'[t].phase = "read" => task'[t].key # k
           /\ refresher'.stage = "read" => Turn' # k,
         \A t \in Tasks : task'[t].phase = "read" =>
           task'[t] = task[t] \/ Timely(task'[t].result, task'[t].key),
         refresher'.stage = "read" =>
           refresher' = refresher \/ Timely(refresher'.result, Turn'),
         Apart'
  PROVE  AgeInv' /\ Younger
<1>1. /\ DataTypes' /\ NoFuture' /\ Younger
      /\ \A x \in Keys : \A r : Timely(r, x) /\ x \notin doubled \ doubled' => Timely(r, x)'
  BY NothingStored DEF AgeInv
<1>2. ReadInTime'
  <2> SUFFICES ASSUME NEW t \in Tasks, task'[t].phase = "read"
               PROVE  Timely(task[t].result, task[t].key)'
    BY DEF ReadInTime
  <2>1. Timely(task'[t].result, task'[t].key)
    BY DEF AgeInv, ReadInTime
  <2>2. task'[t].key \in Keys
    BY DEF FlightInv, LiveHasKey, Live
  <2> QED BY <1>1, <2>1, <2>2
<1>3. RefreshInTime'
  <2> SUFFICES ASSUME refresher'.stage = "read" PROVE Timely(refresher.result, Turn)'
    BY DEF RefreshInTime
  <2>1. Timely(refresher'.result, Turn')
    BY DEF AgeInv, RefreshInTime, Turn
  <2>2. Turn' \in Keys
    BY DEF RefresherTypes, Turn
  <2> QED BY <1>1, <2>1, <2>2
<1> QED BY <1>1, <1>2, <1>3 DEF AgeInv

(* A computation that has just read the data is timely. *)
LEMMA JustRead ==
  ASSUME DataTypes, NoFuture, NEW k \in Keys
  PROVE  Timely(version, k)
BY DEF Timely, DataTypes, NoFuture, Versions, Values

(* The refresher's own state stays well typed, and its position a default key's. *)
LEMMA RefresherStaysTyped ==
  ASSUME FlightInv, DataTypes, RefresherTypes, [Next]_vars
  PROVE  RefresherTypes'
<1> USE DEF RefresherTypes, Stages
<1>d. /\ DOMAIN DefaultKeys = 1..Len(DefaultKeys) /\ Len(DefaultKeys) \in Nat
      /\ DefaultKeys # <<>> => Len(DefaultKeys) # 0
  OBVIOUS
<1>1. CASE refresher' = refresher
  BY <1>1
<1>2. CASE BeginPass
  <2>1. 1 \in DOMAIN DefaultKeys
    BY <1>2, <1>d DEF BeginPass
  <2>2. refresher' = [stage |-> "turn", pos |-> 1, task |-> refresher.task,
                      result |-> refresher.result]
    BY <1>2 DEF BeginPass
  <2> QED BY <2>1, <2>2
<1>3. CASE TakeTurn
  <2>1. Turn \in Keys
    BY <1>3, TurnIsAKey DEF TakeTurn
  <2>2. Running(Turn) => inflight[Turn] \in Tasks
    BY <2>1 DEF FlightInv, TaskTypes, Running
  <2> QED BY <1>3, <2>2 DEF TakeTurn
<1>4. CASE RefresherRead
  <2>1. version \in Values
    BY DEF DataTypes, Values
  <2> QED BY <1>4, <2>1 DEF RefresherRead
<1>5. CASE RefresherStore \/ RefresherFails \/ StopWarmup
  BY <1>5 DEF RefresherStore, RefresherFails, RefresherEnds, StopWarmup
<1>6. CASE EndPause
  <2>1. refresher.pos \in 1..Len(DefaultKeys)
    BY <1>6, <1>d DEF EndPause
  <2>2. CASE refresher.pos < Len(DefaultKeys)
    <3>1. refresher.pos + 1 \in DOMAIN DefaultKeys
      BY <1>d, <2>1, <2>2
    <3>2. refresher' = [stage |-> "turn", pos |-> refresher.pos + 1, task |-> refresher.task,
                        result |-> refresher.result]
      BY <1>6, <2>2 DEF EndPause
    <3> QED BY <1>d, <3>1, <3>2
  <2>3. CASE ~(refresher.pos < Len(DefaultKeys))
    BY <1>6, <2>3 DEF EndPause
  <2> QED BY <2>2, <2>3
<1>7. ASSUME NEW t \in Tasks, Finished(t) PROVE RefresherTypes'
  BY <1>7 DEF Finished
<1> QED
  BY <1>1, <1>2, <1>3, <1>4, <1>5, <1>6, <1>7
  DEF Next, Change, Expire, TaskStep, Acquire, Read, Complete, Raise, AskCached, AskMissing,
      Leave, RefresherStep, vars

(* Tasks that end or go on and a refresher that begins nothing leave their keys apart. *)
LEMMA StaysApart ==
  ASSUME Apart,
         \A k \in doubled \ doubled' : Refreshing(k)' => \A t \in Tasks : Live(t)' => task'[t].key # k,
         \A t \in Tasks : Live(t)' => Live(t) /\ task'[t].key = task[t].key,
         \A k \in Keys : Refreshing(k)' => Refreshing(k)
  PROVE  Apart'
BY DEF Apart

LEMMA AgeStep ==
  ASSUME AgeInv, [Next]_vars
  PROVE  AgeInv' /\ Younger
<1>f. FlightInv /\ FlightInv' /\ RefresherTypes'
  BY FlightStep, RefresherStaysTyped DEF AgeInv
<1>v. version \in Versions /\ version <= version
  BY DEF AgeInv, DataTypes, Versions
<1>1. ASSUME NEW t \in Tasks, Complete(t) PROVE AgeInv' /\ Younger
  <2> DEFINE k == task[t].key
             v == task[t].result
  <2>1. /\ k \in Keys /\ v \in Values \cup {None}
        /\ task[t].phase = "read" /\ Live(t) /\ Store(k, v)
        /\ version' = version /\ refresher' = refresher
        /\ doubled' = doubled \ {x \in {k} : ~Refreshing(x)}
    BY <1>f, <1>1 DEF Complete, TaskEnds, Live, FlightInv, LiveHasKey, TaskTypes
  <2>2. Timely(v, k)
    BY <2>1 DEF AgeInv, ReadInTime
  <2>3. /\ DataTypes' /\ NoFuture' /\ Younger
        /\ \A x \in Keys : \A r :
             Timely(r, x) /\ (x # k \/ x \in doubled') /\ x \notin doubled \ doubled' => Timely(r, x)'
    BY <2>1, <2>2, StoreTimely DEF AgeInv
  <2>4. \A u \in Tasks : Live(u)' => u # t /\ task'[u] = task[u] /\ Live(u)
    BY <1>1, <1>f DEF Complete, FlightInv, TaskTypes, Live
  <2>5. ReadInTime'
    <3> SUFFICES ASSUME NEW u \in Tasks, task'[u].phase = "read"
                 PROVE  Timely(task[u].result, task[u].key)'
      BY DEF ReadInTime
    <3>1. u # t /\ task'[u] = task[u] /\ Live(u) /\ Timely(task[u].result, task[u].key)
      BY <2>4 DEF AgeInv, ReadInTime, Live
    <3>2. task[u].key \in Keys /\ task[u].key # k
      BY <1>f, <2>1, <3>1 DEF FlightInv, LiveHasKey, SingleFlight
    <3>3. task[u].key \notin doubled \ doubled'
      BY <2>1, <3>2
    <3> QED BY <2>3, <3>1, <3>2, <3>3
  <2>6. RefreshInTime'
    <3> SUFFICES ASSUME refresher.stage = "read" PROVE Timely(refresher.result, Turn)'
      BY <2>1 DEF RefreshInTime
    <3>1. Turn \in Keys /\ Refreshing(Turn) /\ Turn' = Turn
      BY <2>1, TurnIsAKey DEF AgeInv, Refreshing, Turn
    <3>2. (Turn # k \/ Turn \in doubled') /\ Turn \notin doubled \ doubled'
      BY <2>1, <3>1 DEF AgeInv, Apart
    <3> QED BY <2>1, <2>3, <3>1, <3>2 DEF AgeInv, RefreshInTime
  <2>7. Apart'
    <3>1. \A x \in Keys : Refreshing(x)' = Refreshing(x)
      BY <2>1 DEF Refreshing, Turn
    <3>2. \A x \in doubled \ doubled' : ~Refreshing(x) /\ x \in Keys
      BY <2>1
    <3> QED BY <2>4, <3>1, <3>2, StaysApart DEF AgeInv
  <2> QED BY <1>f, <2>3, <2>5, <2>6, <2>7 DEF AgeInv
<1>2. CASE RefresherStore
  <2>1. /\ Turn \in Keys /\ refresher.result \in Values \cup {None}
        /\ refresher.stage = "read" /\ refresher'.stage = "pause" /\ Store(Turn, refresher.result)
        /\ version' = version /\ task' = task
        /\ doubled' = doubled \ {k \in {Turn} : ~\E t \in Tasks : Live(t) /\ task[t].key = k}
    BY <1>2, TurnIsAKey DEF RefresherStore, RefresherEnds, AgeInv, RefresherTypes
  <2>2. Timely(refresher.result, Turn)
    BY <2>1 DEF AgeInv, RefreshInTime
  <2>3. /\ DataTypes' /\ NoFuture' /\ Younger
        /\ \A x \in Keys : \A r :
             Timely(r, x) /\ (x # Turn \/ x \in doubled') /\ x \notin doubled \ doubled' => Timely(r, x)'
    BY <2>1, <2>2, StoreTimely DEF AgeInv
  <2>4. ReadInTime'
    <3> SUFFICES ASSUME NEW u \in Tasks, task[u].phase = "read"
                 PROVE  Timely(task[u].result, task[u].key)'
      BY <2>1 DEF ReadInTime
    <3>1. Live(u) /\ task[u].key \in Keys /\ Timely(task[u].result, task[u].key)
      BY <1>f DEF Live, AgeInv, FlightInv, LiveHasKey, ReadInTime
    <3>2. /\ task[u].key # Turn \/ task[u].key \in doubled'
          /\ task[u].key \notin doubled \ doubled'
      BY <2>1, <3>1 DEF AgeInv, Apart, Refreshing
    <3> QED BY <2>1, <2>3, <3>1, <3>2
  <2>5. RefreshInTime' /\ Apart'
    BY <2>1 DEF RefreshInTime, Apart, Refreshing
  <2> QED BY <1>f, <2>3, <2>4, <2>5 DEF AgeInv
<1>3. ASSUME NEW t \in Tasks, Read(t) PROVE AgeInv' /\ Younger
  <2>1. task' = [task EXCEPT ![t].phase = "read", ![t].result = version]
    BY <1>3 DEF Read
  <2>2. /\ task'[t].key = task[t].key /\ task'[t].result = version
        /\ \A u \in Tasks \ {t} : task'[u] = task[u]
    BY <1>f, <2>1 DEF FlightInv, TaskTypes
  <2>3. /\ version' = version /\ value' = value /\ refresher' = refresher /\ doubled' = doubled
        /\ Live(t) /\ task[t].key \in Keys
    BY <1>3, <1>f DEF Read, cache, Live, FlightInv, LiveHasKey
  <2>4. Timely(task'[t].result, task'[t].key)
    BY <2>2, <2>3, JustRead DEF AgeInv
  <2>5. Apart'
    BY <2>2, <2>3, StaysApart DEF AgeInv, Refreshing, Turn, Live
  <2> QED BY <1>f, <1>v, <2>2, <2>3, <2>4, <2>5, AgeKept
<1>4. CASE RefresherRead
  <2>1. refresher' = [refresher EXCEPT !.stage = "read", !.result = version]
    BY <1>4 DEF RefresherRead
  <2>2. /\ refresher'.result = version /\ Turn' = Turn /\ Turn \in Keys
        /\ \A k \in Keys : Refreshing(k)' => Refreshing(k)
    BY <1>4, <2>1, TurnIsAKey DEF RefresherRead, AgeInv, RefresherTypes, Turn, Refreshing
  <2>3. version' = version /\ value' = value /\ task' = task /\ doubled' = doubled
    BY <1>4 DEF RefresherRead, cache, tasks
  <2>4. Timely(refresher'.result, Turn')
    BY <2>2, JustRead DEF AgeInv
  <2>5. Apart'
    BY <2>2, <2>3, StaysApart DEF AgeInv, Live
  <2> QED BY <1>f, <1>v, <2>3, <2>4, <2>5, AgeKept
<1>5. ASSUME NEW t \in Tasks, Acquire(t) \/ Raise(t) \/ Finished(t) PROVE AgeInv' /\ Younger
  <2>0. \A k \in doubled \ doubled' : Raise(t) /\ k = task[t].key /\ ~Refreshing(k)
    BY <1>5 DEF Acquire, Raise, TaskEnds, Finished
  <2>1. /\ version' = version /\ value' = value
        /\ \A u \in Tasks : task'[u].phase = "read" => task'[u] = task[u]
        /\ \A u \in Tasks : Live(u)' => Live(u) /\ task'[u].key = task[u].key
    BY <1>f, <1>5 DEF Acquire, Raise, Finished, NoTask, cache, FlightInv, TaskTypes, Live
  <2>6. \A u \in Tasks : Raise(t) /\ Live(u)' => u # t /\ Live(t)
    BY <1>f DEF Raise, FlightInv, TaskTypes, Live
  <2>2. /\ refresher'.stage \in {"running", "read"} => refresher' = refresher
        /\ \A k \in Keys : Refreshing(k)' => Refreshing(k)
    BY <1>5 DEF Acquire, Raise, Finished, AgeInv, RefresherTypes, Refreshing, Turn
  <2>4. \A k \in doubled \ doubled' : \A u \in Tasks : Live(u)' => task'[u].key # k
    BY <1>f, <2>0, <2>1, <2>6 DEF FlightInv, SingleFlight
  <2>3. Apart'
    BY <2>1, <2>2, <2>4, StaysApart DEF AgeInv
  <2>5. \A k \in doubled \ doubled' :
          /\ \A u \in Tasks : task'[u].phase = "read" => task'[u].key # k
          /\ refresher'.stage = "read" => Turn' # k
    BY <2>0, <2>2, <2>4 DEF Live, Refreshing, Turn
  <2> QED BY <1>f, <1>v, <2>1, <2>2, <2>3, <2>5, AgeKept
<1>6. ASSUME NEW c \in Callers, NEW k \in Keys, AskCached(c, k) \/ AskMissing(c, k)
      PROVE  AgeInv' /\ Younger
  <2>1. refresher' = refresher /\ version' = version /\ value' = value
    BY <1>6 DEF AskCached, AskMissing, cache
  <2>2. CASE UNCHANGED tasks
    <3>1. Apart'
      BY <2>1, <2>2, StaysApart DEF AgeInv, Refreshing, Turn, Live, tasks
    <3> QED BY <1>f, <1>v, <2>1, <2>2, <3>1, AgeKept DEF tasks
  <2>3. ASSUME NEW t \in Tasks, Start(k, t) PROVE AgeInv' /\ Younger
    <3>1. /\ task'[t] = [key |-> k, phase |-> "queued", result |-> None]
          /\ \A u \in Tasks \ {t} : task'[u] = task[u]
          /\ doubled \subseteq doubled' /\ (Refreshing(k) => k \in doubled')
      BY <1>f, <2>3 DEF Start, FlightInv, TaskTypes
    <3>2. Apart'
      BY <2>1, <3>1 DEF AgeInv, Apart, Refreshing, Turn, Live
    <3> QED BY <1>f, <1>v, <2>1, <3>1, <3>2, AgeKept
  <2> QED BY <1>6, <2>2, <2>3 DEF AskCached, AskMissing, Refresh
<1>7. CASE Change \/ (\E k \in Keys : Expire(k)) \/ (\E c \in Callers : Leave(c)) \/ UNCHANGED vars
  <2>1. /\ refresher' = refresher /\ value' = value /\ task' = task /\ doubled' = doubled
        /\ version' \in Versions /\ version <= version'
    BY <1>7, <1>v DEF Change, Expire, Leave, vars, cache, tasks, Versions
  <2>2. Apart'
    BY <2>1, StaysApart DEF AgeInv, Refreshing, Turn, Live
  <2> QED BY <1>f, <2>1, <2>2, AgeKept
<1>8. CASE BeginPass \/ TakeTurn \/ RefresherFails \/ EndPause \/ StopWarmup
  <2>1. /\ value' = value /\ version' = version /\ task' = task
        /\ \A k \in doubled \ doubled' : \A t \in Tasks : Live(t) => task[t].key # k
        /\ TakeTurn => doubled' = doubled
        /\ inflight' = inflight /\ refresher'.stage # "read"
    BY <1>8 DEF BeginPass, TakeTurn, RefresherFails, RefresherEnds, EndPause, StopWarmup, cache, tasks,
                AgeInv, RefresherTypes
  <2>2. Apart'
    <3>1. CASE TakeTurn
      <4>1. Turn \in Keys /\ Turn' = Turn
        BY <3>1, TurnIsAKey DEF TakeTurn, AgeInv, RefresherTypes, Turn
      <4>2. Refreshing(Turn)' => ~Running(Turn)
        BY <3>1 DEF TakeTurn, Refreshing, AgeInv, RefresherTypes
      <4>3. ~Running(Turn) => \A t \in Tasks : Live(t) => task[t].key # Turn
        BY <1>f DEF FlightInv, SingleFlight, Running
      <4> QED BY <2>1, <4>1, <4>2, <4>3 DEF Apart, Refreshing, Live
    <3>2. CASE BeginPass \/ RefresherFails \/ EndPause \/ StopWarmup
      BY <3>2, ZenonT(40) DEF BeginPass, RefresherFails, RefresherEnds, EndPause, StopWarmup, AgeInv,
                  RefresherTypes, Apart, Refreshing
    <3> QED BY <1>8, <3>1, <3>2
  <2>3. \A k \in doubled \ doubled' : \A t \in Tasks : task'[t].phase = "read" => task'[t].key # k
    BY <2>1 DEF Live
  <2> QED BY <1>f, <1>v, <2>1, <2>2, <2>3, AgeKept
<1> QED
  BY <1>1, <1>2, <1>3, <1>4, <1>5, <1>6, <1>7, <1>8 DEF Next, TaskStep, RefresherStep

LEMMA AgeInit == Init => AgeInv
BY DEF Init, AgeInv, FlightInv, TaskTypes, LiveHasKey, SingleFlight, Live, NoTask, Phases,
       DataTypes, RefresherTypes, Stages, NoFuture, ReadInTime, RefreshInTime, Apart,
       Refreshing, Versions, Values

(***************************************************************************)
(* The value of a key is never replaced by one that was read before it,    *)
(* unless a request had the key computed while the refresher did.  Single  *)
(* flight is what keeps callers' computations from it, and the refresher's *)
(* look at the registered computations is what keeps its own.              *)
(***************************************************************************)
THEOREM ValuesNeverAge == Spec => NeverOlder
<1>1. Init => AgeInv
  BY AgeInit
<1>2. AgeInv /\ [Next]_vars => AgeInv'
  BY AgeStep
<1>3. AgeInv /\ [Next]_vars =>
        [\A k \in Keys \ doubled :
           value[k] \in Versions /\ value'[k] \in Versions => value[k] <= value'[k]]_value
  BY AgeStep DEF Younger
<1> QED BY <1>1, <1>2, <1>3, PTL DEF Spec, NeverOlder

-----------------------------------------------------------------------------
(***************************************************************************)
(* The order of eviction.  Storing gives up the key's old place, at most   *)
(* one, and takes a new one at the end; only what is over the limit goes.  *)
(***************************************************************************)
RoomInv == order \in Seq(Keys) /\ Len(order) <= MaxEntries

(* Removing an element makes a sequence shorter by at most one. *)
LEMMA OneRemoved ==
  ASSUME NEW S, NEW s \in Seq(S), NEW e
  PROVE  /\ Without(s, e) \in Seq(S)
         /\ Len(Without(s, e)) \in {Len(s), Len(s) - 1}
<1> DEFINE at == CHOOSE i \in DOMAIN s : s[i] = e
<1>1. CASE \A i \in DOMAIN s : s[i] # e
  BY <1>1 DEF Without
<1>2. CASE ~\A i \in DOMAIN s : s[i] # e
  <2>1. at \in 1..Len(s)
    BY <1>2
  <2> DEFINE front == SubSeq(s, 1, at - 1)
             back == SubSeq(s, at + 1, Len(s))
  <2>2. Without(s, e) = front \o back
    BY <1>2 DEF Without
  <2> HIDE DEF at
  <2>3. /\ front \in Seq(S) /\ Len(front) = at - 1
        /\ back \in Seq(S) /\ Len(back) = Len(s) - at
    BY <2>1
  <2> HIDE DEF front, back
  <2>4. front \o back \in Seq(S) /\ Len(front \o back) = Len(front) + Len(back)
    BY <2>3, ConcatProperties
  <2> QED BY <2>1, <2>2, <2>3, <2>4, Len(s) \in Nat
<1> QED BY <1>1, <1>2

LEMMA KeptRoom ==
  ASSUME RoomInv, NEW k \in Keys
  PROVE  Kept(k) \in Seq(Keys) /\ Len(Kept(k)) <= MaxEntries /\ Len(Kept(k)) >= Len(order)
<1> DEFINE moved == Append(Without(order, k), k)
           surplus == IF Len(moved) > MaxEntries THEN Len(moved) - MaxEntries ELSE 0
<1>1. /\ Without(order, k) \in Seq(Keys)
      /\ Len(Without(order, k)) \in {Len(order), Len(order) - 1}
  BY OneRemoved DEF RoomInv
<1>2. moved \in Seq(Keys) /\ Len(moved) \in {Len(order) + 1, Len(order)} /\ Len(order) \in Nat
  BY <1>1 DEF RoomInv
<1>3. surplus \in Nat /\ surplus <= Len(moved)
  BY <1>2
<1>4. Kept(k) = SubSeq(moved, surplus + 1, Len(moved))
  BY DEF Kept
<1> HIDE DEF moved, surplus
<1>5. Kept(k) \in Seq(Keys) /\ Len(Kept(k)) = Len(moved) - surplus
  BY <1>2, <1>3, <1>4
<1>6. surplus = IF Len(moved) > MaxEntries THEN Len(moved) - MaxEntries ELSE 0
  BY DEF surplus
<1> QED BY <1>2, <1>5, <1>6 DEF RoomInv

(* Every step stores one key, or leaves the order alone. *)
LEMMA RoomStep ==
  ASSUME FlightInv, RefresherTypes, RoomInv, [Next]_vars
  PROVE  RoomInv' /\ Len(order') >= Len(order)
<1>1. ASSUME NEW k \in Keys, order' = Kept(k) PROVE RoomInv' /\ Len(order') >= Len(order)
  BY <1>1, KeptRoom DEF RoomInv
<1>2. ASSUME order' = order PROVE RoomInv' /\ Len(order') >= Len(order)
  BY <1>2 DEF RoomInv
<1>3. ASSUME NEW t \in Tasks, Complete(t) PROVE \E k \in Keys : order' = Kept(k)
  BY <1>3 DEF Complete, Store, FlightInv, LiveHasKey, Live
<1>4. ASSUME RefresherStore PROVE \E k \in Keys : order' = Kept(k)
  BY <1>4, TurnIsAKey DEF RefresherStore, Store
<1>5. (\E k \in Keys : order' = Kept(k)) \/ order' = order
  BY <1>3, <1>4 DEF Next, Change, Expire, TaskStep, Acquire, Read, Raise, Finished, AskCached, AskMissing, Leave,
     RefresherStep, BeginPass, TakeTurn, RefresherRead, RefresherFails, RefresherEnds, EndPause, StopWarmup, vars, cache
<1> QED BY <1>1, <1>2, <1>5

(* However keys expire and are stored again, a full cache stays full: no refresh takes another key's room. *)
THEOREM NoRoomWasted == Spec => RoomIsUsed
<1>1. Init => AgeInv /\ RoomInv
  BY AgeInit DEF Init, RoomInv
<1>2. AgeInv /\ RoomInv /\ [Next]_vars => AgeInv' /\ RoomInv' /\ [Len(order') >= Len(order)]_order
  BY AgeStep, RoomStep DEF AgeInv
<1> QED BY <1>1, <1>2, PTL DEF Spec, RoomIsUsed

-----------------------------------------------------------------------------
(***************************************************************************)
(* The semaphore.  Every permit is free or with a computation whose thread *)
(* runs, and a task that waits for one is in the queue.                    *)
(***************************************************************************)
Working == {t \in Tasks : task[t].phase \in {"running", "read"}}
PermitsAccounted ==
  /\ IsFiniteSet(Working) /\ permits \in Nat
  /\ permits + Cardinality(Working) = Concurrency
InLine ==
  /\ queue \in Seq(Tasks)
  /\ \A t \in Tasks : task[t].phase = "queued" => \E i \in 1..Len(queue) : queue[i] = t
CallerTypes == caller \in [Callers -> Tasks \cup {None}]

TypeInv ==
  /\ AgeInv /\ RoomInv /\ PermitsAccounted /\ InLine /\ CallerTypes
  /\ fresh \in SUBSET Keys /\ doubled \in SUBSET Keys

LEMMA TypeInit == Init => TypeInv
<1> SUFFICES ASSUME Init PROVE TypeInv
  OBVIOUS
<1>1. Working = {} /\ permits = Concurrency
  BY DEF Init, Working, NoTask
<1>2. PermitsAccounted
  <2>1. IsFiniteSet(Working) /\ Cardinality(Working) = 0
    BY <1>1, FS_EmptySet
  <2> QED BY <1>1, <2>1 DEF PermitsAccounted
<1>3. InLine /\ CallerTypes
  BY DEF Init, InLine, CallerTypes, NoTask
<1> QED BY <1>2, <1>3, AgeInit DEF Init, TypeInv, RoomInv

(* A thread that starts takes a permit, one that ends gives it back. *)
LEMMA PermitsStep ==
  ASSUME TypeInv, [Next]_vars
  PROVE  PermitsAccounted'
<1>t. TaskTypes /\ permits \in Nat /\ IsFiniteSet(Working) /\ Cardinality(Working) \in Nat
      /\ permits + Cardinality(Working) = Concurrency
  BY FS_CardinalityType DEF TypeInv, AgeInv, FlightInv, PermitsAccounted
<1>1. ASSUME Working' = Working, permits' = permits PROVE PermitsAccounted'
  BY <1>t, <1>1 DEF PermitsAccounted
<1>2. ASSUME NEW t \in Tasks, Acquire(t) PROVE PermitsAccounted'
  <2>1. Working' = Working \cup {t} /\ t \notin Working
    BY <1>t, <1>2 DEF Acquire, Working, TaskTypes
  <2>2. IsFiniteSet(Working') /\ Cardinality(Working') = Cardinality(Working) + 1
    BY <1>t, <2>1, FS_AddElement
  <2>3. permits' = permits - 1 /\ permits > 0
    BY <1>2 DEF Acquire
  <2> QED BY <1>t, <2>2, <2>3 DEF PermitsAccounted
<1>3. ASSUME NEW t \in Tasks, Complete(t) \/ Raise(t) PROVE PermitsAccounted'
  <2>1. Working' = Working \ {t} /\ t \in Working
    BY <1>t, <1>3 DEF Complete, Raise, Working, TaskTypes
  <2>2. IsFiniteSet(Working') /\ Cardinality(Working') = Cardinality(Working) - 1
    BY <1>t, <2>1, FS_RemoveElement
  <2>3. permits' = permits + 1
    BY <1>3 DEF Complete, Raise
  <2> QED BY <1>t, <2>2, <2>3 DEF PermitsAccounted
<1>4. ASSUME NEW t \in Tasks, Read(t) \/ Finished(t) PROVE PermitsAccounted'
  <2>1. CASE Read(t)
    <3>1. Working' = Working
      BY <1>t, <2>1 DEF Read, Working, TaskTypes
    <3> QED BY <1>1, <2>1, <3>1 DEF Read
  <2>2. CASE Finished(t)
    <3>1. \A u \in Tasks : task'[u].phase = IF u = t THEN "free" ELSE task[u].phase
      BY <1>t, <2>2 DEF Finished, TaskTypes, NoTask
    <3>2. task[t].phase \in {"done", "raised"}
      BY <2>2 DEF Finished
    <3>3. Working' = Working
      BY <3>1, <3>2 DEF Working
    <3> QED BY <1>1, <2>2, <3>3 DEF Finished
  <2> QED BY <1>4, <2>1, <2>2
<1>5. ASSUME UNCHANGED <<task, permits>> PROVE PermitsAccounted'
  <2>1. Working' = Working /\ permits' = permits
    BY <1>5 DEF Working
  <2> QED BY <1>1, <2>1
<1>6. ASSUME NEW k \in Keys, NEW t \in Tasks, Start(k, t) PROVE PermitsAccounted'
  <2>1. Working' = Working /\ permits' = permits
    BY <1>t, <1>6 DEF Start, Working, TaskTypes
  <2> QED BY <1>1, <2>1
<1>7. ASSUME NEW c \in Callers, NEW k \in Keys, AskCached(c, k) \/ AskMissing(c, k) PROVE PermitsAccounted'
  BY <1>5, <1>6, <1>7 DEF AskCached, AskMissing, Refresh, tasks
<1> QED
  BY <1>2, <1>3, <1>4, <1>5, <1>7
  DEF tasks, Next, Change, Expire, TaskStep, Leave, RefresherStep, BeginPass, TakeTurn, RefresherRead, RefresherStore,
      RefresherFails, RefresherEnds, EndPause, StopWarmup, vars

(* A task leaves the queue only with its permit. *)
LEMMA InLineStep ==
  ASSUME TypeInv, [Next]_vars
  PROVE  InLine'
<1>t. TaskTypes /\ queue \in Seq(Tasks)
      /\ \A t \in Tasks : task[t].phase = "queued" => \E i \in 1..Len(queue) : queue[i] = t
  BY DEF TypeInv, AgeInv, FlightInv, InLine
<1>1. ASSUME queue' = queue, \A t \in Tasks : task'[t].phase = "queued" => task[t].phase = "queued" PROVE InLine'
  BY <1>t, <1>1 DEF InLine
<1>2. ASSUME NEW t \in Tasks, Acquire(t) PROVE InLine'
  <2>1. queue # <<>> /\ queue' = Tail(queue) /\ queue[1] = t
    BY <1>t, <1>2 DEF Acquire
  <2>2. \A u \in Tasks : task'[u].phase = "queued" => u # t /\ task[u].phase = "queued"
    BY <1>t, <1>2 DEF Acquire, TaskTypes
  <2>3. queue' \in Seq(Tasks) /\ Len(queue') = Len(queue) - 1 /\ \A i \in 1..Len(queue') : queue'[i] = queue[i + 1]
    BY <1>t, <2>1, HeadTailProperties
  <2>4. ASSUME NEW u \in Tasks, task'[u].phase = "queued" PROVE \E i \in 1..Len(queue') : queue'[i] = u
    <3>1. PICK i \in 1..Len(queue) : queue[i] = u
      BY <1>t, <2>2, <2>4
    <3>2. i # 1 /\ Len(queue) \in Nat
      BY <1>t, <2>1, <2>2, <2>4, <3>1
    <3>3. i - 1 \in 1..Len(queue') /\ queue'[i - 1] = queue[(i - 1) + 1] /\ (i - 1) + 1 = i
      BY <2>3, <3>1, <3>2
    <3> QED BY <3>1, <3>3
  <2> QED BY <2>3, <2>4 DEF InLine
<1>3. ASSUME NEW t \in Tasks, Complete(t) \/ Raise(t) \/ Read(t) \/ Finished(t) PROVE InLine'
  <2>1. queue' = queue
    BY <1>3 DEF Complete, Raise, Read, Finished
  <2>2. \A u \in Tasks : task'[u].phase = "queued" => task[u].phase = "queued"
    BY <1>3, <1>t DEF Complete, Raise, Read, Finished, NoTask, TaskTypes
  <2> QED BY <1>1, <2>1, <2>2
<1>4. ASSUME UNCHANGED <<task, queue>> PROVE InLine'
  BY <1>1, <1>4
<1>5. ASSUME NEW k \in Keys, NEW t \in Tasks, Start(k, t) PROVE InLine'
  <2>1. queue' \in Seq(Tasks) /\ Len(queue') = Len(queue) + 1 /\ queue'[Len(queue) + 1] = t
        /\ \A i \in 1..Len(queue) : queue'[i] = queue[i]
    BY <1>t, <1>5, AppendProperties DEF Start
  <2>2. \A u \in Tasks : task'[u].phase = "queued" => u = t \/ task[u].phase = "queued"
    BY <1>t, <1>5 DEF Start, TaskTypes
  <2>3. Len(queue) \in Nat /\ Len(queue) + 1 \in 1..Len(queue') /\ \A i \in 1..Len(queue) : i \in 1..Len(queue')
    BY <1>t, <2>1
  <2> QED BY <1>t, <2>1, <2>2, <2>3 DEF InLine
<1>6. ASSUME NEW c \in Callers, NEW k \in Keys, AskCached(c, k) \/ AskMissing(c, k) PROVE InLine'
  BY <1>4, <1>5, <1>6 DEF AskCached, AskMissing, Refresh, tasks
<1> QED
  BY <1>2, <1>3, <1>4, <1>6
  DEF tasks, Next, Change, Expire, TaskStep, Leave, RefresherStep, BeginPass, TakeTurn, RefresherRead, RefresherStore,
      RefresherFails, RefresherEnds, EndPause, StopWarmup, vars

LEMMA TypeStep ==
  ASSUME TypeInv, [Next]_vars
  PROVE  TypeInv'
<1>1. AgeInv' /\ RoomInv' /\ PermitsAccounted' /\ InLine'
  BY AgeStep, RoomStep, PermitsStep, InLineStep DEF TypeInv, AgeInv
<1>2. CallerTypes'
  BY DEF TypeInv, CallerTypes, Next, Change, Expire, TaskStep, Acquire, Read, Complete, Raise, Finished, AskCached,
     AskMissing, Leave, RefresherStep, BeginPass, TakeTurn, RefresherRead, RefresherStore, RefresherFails,
     RefresherEnds, EndPause, StopWarmup, vars
<1>3. doubled' \in SUBSET Keys
  BY DEF TypeInv, Next, Change, Expire, TaskStep, TaskEnds, Acquire, Read, Complete, Raise, Finished, AskCached,
     AskMissing, Refresh, Start, Leave, RefresherStep, BeginPass, TakeTurn, RefresherRead, RefresherStore,
     RefresherFails, RefresherEnds, EndPause, StopWarmup, vars, tasks
<1>4. fresh' \in SUBSET Keys
  <2>1. ASSUME NEW t \in Tasks, Complete(t) PROVE fresh' \in SUBSET Keys
    BY <2>1 DEF Complete, Store, TypeInv, AgeInv, FlightInv, LiveHasKey, Live
  <2>2. ASSUME RefresherStore PROVE fresh' \in SUBSET Keys
    BY <2>2, TurnIsAKey DEF RefresherStore, Store, TypeInv, AgeInv
  <2> QED
    BY <2>1, <2>2 DEF TypeInv, Next, Change, Expire, TaskStep, Acquire, Read, Raise, Finished, AskCached, AskMissing,
       Leave, RefresherStep, BeginPass, TakeTurn, RefresherRead, RefresherFails, RefresherEnds, EndPause, StopWarmup, vars, cache
<1> QED BY <1>1, <1>2, <1>3, <1>4 DEF TypeInv

(* Type correctness: a permit is never returned twice, and none beyond Concurrency is given out. *)
THEOREM TypeCorrect == Spec => []TypeOK
<1>1. ASSUME TypeInv PROVE TypeOK
  <2>1. permits \in 0..Concurrency
    BY <1>1, FS_CardinalityType DEF TypeInv, PermitsAccounted
  <2> QED BY <1>1, <2>1 DEF TypeInv, AgeInv, FlightInv, TaskTypes, DataTypes, RefresherTypes, RoomInv, InLine,
             CallerTypes, TypeOK
<1>2. TypeInv /\ [Next]_vars => TypeInv'
  BY TypeStep
<1> QED BY <1>1, <1>2, TypeInit, PTL DEF Spec
=============================================================================
