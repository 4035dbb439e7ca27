------------------------ MODULE ResponseCacheProofs ------------------------
(***************************************************************************)
(* What the response cache promises for every number of threads, keys and  *)
(* writes: what an admin write guarantees, that a shared key is computed   *)
(* once, and how far the cache can be over its cap.                        *)
(***************************************************************************)
EXTENDS ResponseCache, SequenceTheorems, FiniteSetTheorems, WellFoundedInduction, TLAPS

(***************************************************************************)
(* The inductive invariant: a thread that carries an answer older than the *)
(* last finished admin write was overtaken by it, and so was whoever       *)
(* stored such an entry; nothing runs ahead of the database.               *)
(***************************************************************************)
CacheIsSeq == cache \in Seq(Entry)
Numbers == version \in Nat /\ cleared \in Nat /\ read \in [Threads -> Nat]
Stations == pc \in [Threads -> Stages] /\ late \in [Threads -> BOOLEAN]
Wanted ==
  /\ want \in [Threads -> Keys \cup {None}]
  /\ \A t \in Threads : pc[t] # "idle" => want[t] \in Keys
NotAhead == cleared <= version
CarriersAreLate ==
  \A t \in Threads : pc[t] = "insert" /\ read[t] < cleared => late[t]

StaleInv ==
  /\ CacheIsSeq /\ Numbers /\ Stations /\ Wanted
  /\ NotAhead /\ CarriersAreLate /\ StaleOnlyFromRacers

-----------------------------------------------------------------------------
(* A key that is there is at one place, and without it what follows moves up. *)
LEMMA WithoutIs ==
  ASSUME CacheIsSeq, NEW k, Has(k)
  PROVE  /\ At(k) \in 1..Len(cache) /\ cache[At(k)].key = k
         /\ Without(k) \in Seq(Entry) /\ Len(Without(k)) = Len(cache) - 1
         /\ \A i \in 1..(Len(cache) - 1) :
              Without(k)[i] = IF i < At(k) THEN cache[i] ELSE cache[i + 1]
  <1>1. At(k) \in DOMAIN cache /\ cache[At(k)].key = k
    BY DEF Has, At
  <1>2. At(k) \in 1..Len(cache)
    BY <1>1 DEF CacheIsSeq
  <1>. DEFINE front == SubSeq(cache, 1, At(k) - 1)
              back == SubSeq(cache, At(k) + 1, Len(cache))
  <1>3. cache \in Seq(Entry) /\ At(k) \in Int /\ 1 \in Int /\ Len(cache) \in Nat
    BY <1>2 DEF CacheIsSeq
  <1>4. \A i \in 1..Len(cache) : cache[i] \in Entry
    BY <1>3, ElementOfSeq
  <1>5. /\ front \in Seq(Entry) /\ Len(front) = At(k) - 1
        /\ \A i \in 1..Len(front) : front[i] = cache[i]
    <2>1. \A i \in 1..(At(k) - 1) : cache[i] \in Entry
      BY <1>2, <1>3, <1>4
    <2>2. /\ front \in Seq(Entry)
          /\ Len(front) = IF 1 <= At(k) - 1 THEN (At(k) - 1) - 1 + 1 ELSE 0
          /\ \A i \in 1..((At(k) - 1) - 1 + 1) : front[i] = cache[1 + i - 1]
      BY <2>1, <1>3, SubSeqProperties DEF front
    <2>. QED BY <2>2, <1>2, <1>3
  <1>6. /\ back \in Seq(Entry) /\ Len(back) = Len(cache) - At(k)
        /\ \A i \in 1..Len(back) : back[i] = cache[At(k) + i]
    <2>1. \A i \in (At(k) + 1)..Len(cache) : cache[i] \in Entry
      BY <1>2, <1>3, <1>4
    <2>2. /\ back \in Seq(Entry)
          /\ Len(back) = IF At(k) + 1 <= Len(cache) THEN Len(cache) - (At(k) + 1) + 1 ELSE 0
          /\ \A i \in 1..(Len(cache) - (At(k) + 1) + 1) : back[i] = cache[(At(k) + 1) + i - 1]
      BY <2>1, <1>3, SubSeqProperties DEF back
    <2>. QED BY <2>2, <1>2, <1>3
  <1>7. Without(k) = front \o back
    BY DEF Without
  <1>. HIDE DEF front, back
  <1>8. /\ front \o back \in Seq(Entry)
        /\ Len(front \o back) = Len(front) + Len(back)
        /\ \A i \in 1..(Len(front) + Len(back)) : (front \o back)[i] =
             IF i <= Len(front) THEN front[i] ELSE back[i - Len(front)]
    <2>1. front \in Seq(Entry) /\ back \in Seq(Entry)
      BY <1>5, <1>6
    <2>. QED BY <2>1, ConcatProperties, Zenon
  <1>9. ASSUME NEW i \in 1..(Len(cache) - 1)
        PROVE  Without(k)[i] = IF i < At(k) THEN cache[i] ELSE cache[i + 1]
    <2>1. Without(k)[i] = IF i <= Len(front) THEN front[i] ELSE back[i - Len(front)]
      <3>1. i \in 1..(Len(front) + Len(back))
        BY <1>2, <1>3, <1>5, <1>6
      <3>. QED BY <1>7, <1>8, <3>1, Zenon
    <2>2. CASE i < At(k)
      <3>1. i \in 1..Len(front)
        BY <1>2, <1>3, <1>5, <2>2
      <3>. QED BY <1>5, <2>1, <2>2, <3>1
    <2>3. CASE ~(i < At(k))
      <3>1. i - Len(front) \in 1..Len(back) /\ ~(i <= Len(front)) /\ At(k) + (i - Len(front)) = i + 1
        BY <1>2, <1>3, <1>5, <1>6, <2>3
      <3>. QED BY <1>6, <2>1, <2>3, <3>1
    <2>. QED BY <2>2, <2>3
  <1>10. Without(k) \in Seq(Entry)
    BY <1>7, <1>8
  <1>11. Len(Without(k)) = Len(cache) - 1
    <2>1. Len(Without(k)) = (At(k) - 1) + (Len(cache) - At(k))
      BY <1>5, <1>6, <1>7, <1>8
    <2>. QED BY <1>3, <2>1
  <1>. QED BY <1>1, <1>2, <1>9, <1>10, <1>11

(* Removing a key keeps the other entries as they are. *)
LEMMA WithoutKeeps ==
  ASSUME CacheIsSeq, NEW k
  PROVE  /\ Without(k) \in Seq(Entry)
         /\ \A i \in DOMAIN Without(k) : \E j \in DOMAIN cache : Without(k)[i] = cache[j]
  <1>1. CASE ~Has(k)
    BY <1>1 DEF Without, CacheIsSeq
  <1>2. CASE Has(k)
    <2>1. Without(k) \in Seq(Entry) /\ DOMAIN Without(k) = 1..(Len(cache) - 1)
      BY <1>2, WithoutIs
    <2>2. ASSUME NEW i \in DOMAIN Without(k)
          PROVE  \E j \in DOMAIN cache : Without(k)[i] = cache[j]
      <3>1. i \in DOMAIN cache /\ i + 1 \in DOMAIN cache
        BY <2>1 DEF CacheIsSeq
      <3>. QED BY <1>2, <2>1, <3>1, WithoutIs
    <2>. QED BY <2>1, <2>2
  <1>. QED BY <1>1, <1>2

(* A step that changes only entries' places, or drops some, keeps the cache sound. *)
LEMMA FewerIsSound ==
  ASSUME StaleOnlyFromRacers, cleared' = cleared,
         \A i \in DOMAIN cache' : \E j \in DOMAIN cache : cache'[i] = cache[j]
  PROVE  StaleOnlyFromRacers'
  BY DEF StaleOnlyFromRacers

(* The steps that only lead a request from one place to the next. *)
LEMMA WalkStep ==
  ASSUME StaleInv, NEW t \in Threads,
         \/ \E k \in Keys : Ask(t, k)
         \/ Miss(t) \/ Lock(t) \/ BeginScan(t) \/ EndScan(t) \/ Popped(t) \/ CheckCap(t)
  PROVE  StaleInv'
  <1>1. UNCHANGED <<cache, version, cleared, read, late>>
    BY DEF Ask, Miss, Lock, BeginScan, EndScan, Popped, CheckCap
  <1>2. /\ Stations' /\ Wanted'
        /\ \A u \in Threads : pc'[u] = "insert" => pc[u] = "insert"
    BY DEF StaleInv, Stations, Wanted, Stages, Ask, Miss, Missed, Lock, BeginScan, EndScan,
           Popped, CheckCap, Goto
  <1>. QED BY <1>1, <1>2 DEF StaleInv, CacheIsSeq, Numbers, NotAhead, CarriersAreLate,
                             StaleOnlyFromRacers

(* A request that leaves carries nothing any more. *)
LEMMA LeaveStep ==
  ASSUME StaleInv, NEW t \in Threads, Leave(t), UNCHANGED <<cache, version, cleared>>
  PROVE  StaleInv'
  BY DEF StaleInv, CacheIsSeq, Numbers, Stations, Stages, Wanted, NotAhead, CarriersAreLate,
         StaleOnlyFromRacers, Leave, Goto

(* A step that pops or evicts entries, whoever takes it. *)
LEMMA TakeOutStep ==
  ASSUME StaleInv, NEW t \in Threads, Drop(t) \/ Pop(t) \/ Evict(t)
  PROVE  StaleInv'
  <1>1. UNCHANGED <<version, cleared, read, late, want>>
    BY DEF Drop, Pop, Evict
  <1>2. /\ Stations' /\ Wanted'
        /\ \A u \in Threads : pc'[u] = "insert" => pc[u] = "insert"
    BY DEF StaleInv, Stations, Wanted, Stages, Drop, Missed, Pop, Evict, Goto
  <1>3. /\ CacheIsSeq'
        /\ \A i \in DOMAIN cache' : \E j \in DOMAIN cache : cache'[i] = cache[j]
    <2>1. CASE Evict(t)
      BY <2>1 DEF Evict, StaleInv, CacheIsSeq
    <2>2. CASE Drop(t)
      BY <2>2, WithoutKeeps DEF Drop, Remove, StaleInv, CacheIsSeq
    <2>3. CASE Pop(t)
      BY <2>3, WithoutKeeps DEF Pop, Remove, StaleInv, CacheIsSeq
    <2>. QED BY <2>1, <2>2, <2>3
  <1>4. StaleOnlyFromRacers'
    BY <1>1, <1>3, FewerIsSound DEF StaleInv
  <1>. QED BY <1>1, <1>2, <1>3, <1>4 DEF StaleInv, Numbers, NotAhead, CarriersAreLate

(* A query sees what is committed, which nothing finished is ahead of. *)
LEMMA QueryStep ==
  ASSUME StaleInv, NEW t \in Threads, Query(t)
  PROVE  StaleInv'
  BY DEF StaleInv, CacheIsSeq, Numbers, Stations, Stages, Wanted, NotAhead, CarriersAreLate,
         StaleOnlyFromRacers, Query, Goto

(* The entry a thread inserts is as late as the thread is. *)
LEMMA InsertStep ==
  ASSUME StaleInv, NEW t \in Threads, Insert(t)
  PROVE  StaleInv'
  <1>. DEFINE e == [key |-> want[t], ver |-> read[t], old |-> FALSE, late |-> late[t]]
  <1>1. UNCHANGED <<version, cleared, read, late, want>> /\ pc[t] = "insert"
    BY DEF Insert
  <1>2. /\ Stations' /\ Wanted'
        /\ \A u \in Threads : pc'[u] = "insert" => pc[u] = "insert"
    BY DEF StaleInv, Stations, Wanted, Stages, Insert, Goto
  <1>3. e \in Entry
    BY <1>1 DEF StaleInv, Numbers, Stations, Wanted, Entry
  <1>4. e.ver < cleared => e.late
    BY <1>1 DEF StaleInv, CarriersAreLate
  <1>5. CASE Has(want[t])
    <2>1. cache' = [cache EXCEPT ![At(want[t])] = e]
      BY <1>5 DEF Insert
    <2>2. At(want[t]) \in DOMAIN cache
      BY <1>5 DEF Has, At
    <2>. HIDE DEF e
    <2>3. CacheIsSeq'
      BY <1>3, <2>1, <2>2 DEF StaleInv, CacheIsSeq
    <2>4. \A i \in DOMAIN cache' : cache'[i] = e \/ (i \in DOMAIN cache /\ cache'[i] = cache[i])
      BY <2>1, <2>2 DEF StaleInv, CacheIsSeq
    <2>5. StaleOnlyFromRacers'
      BY <1>1, <1>4, <2>4 DEF StaleInv, StaleOnlyFromRacers
    <2>. QED BY <1>1, <1>2, <2>3, <2>5 DEF StaleInv, Numbers, NotAhead, CarriersAreLate
  <1>6. CASE ~Has(want[t])
    <2>1. cache' = Append(cache, e)
      BY <1>6 DEF Insert
    <2>. HIDE DEF e
    <2>2. CacheIsSeq'
      BY <1>3, <2>1 DEF StaleInv, CacheIsSeq
    <2>3. \A i \in DOMAIN cache' : cache'[i] = e \/ (i \in DOMAIN cache /\ cache'[i] = cache[i])
      BY <1>3, <2>1 DEF StaleInv, CacheIsSeq
    <2>4. StaleOnlyFromRacers'
      BY <1>1, <1>4, <2>3 DEF StaleInv, StaleOnlyFromRacers
    <2>. QED BY <1>1, <1>2, <2>2, <2>4 DEF StaleInv, Numbers, NotAhead, CarriersAreLate
  <1>. QED BY <1>5, <1>6

(* move_to_end changes the order and nothing else. *)
LEMMA MoveStep ==
  ASSUME StaleInv, NEW t \in Threads, Move(t)
  PROVE  StaleInv'
  <1>1. UNCHANGED <<version, cleared, read, late, want>>
    BY DEF Move
  <1>2. /\ Stations' /\ Wanted'
        /\ \A u \in Threads : pc'[u] = "insert" => pc[u] = "insert"
    BY DEF StaleInv, Stations, Wanted, Stages, Move, Goto
  <1>. DEFINE k == want[t]
              rest == Without(k)
  <1>3. /\ rest \in Seq(Entry)
        /\ \A i \in DOMAIN rest : \E j \in DOMAIN cache : rest[i] = cache[j]
    BY WithoutKeeps DEF StaleInv
  <1>4. At(k) \in DOMAIN cache /\ cache[At(k)] \in Entry
    <2>1. \E i \in DOMAIN cache : cache[i].key = k
      BY DEF Move, Has
    <2>2. At(k) \in DOMAIN cache
      BY <2>1 DEF At
    <2>. QED BY <2>2, ElementOfSeq DEF StaleInv, CacheIsSeq
  <1>5. cache' = Append(rest, cache[At(k)])
    BY DEF Move
  <1>. HIDE DEF rest, k
  <1>6. cache' \in Seq(Entry)
    BY <1>3, <1>4, <1>5
  <1>7. \A i \in DOMAIN cache' : \E j \in DOMAIN cache : cache'[i] = cache[j]
    <2>1. \A i \in DOMAIN cache' :
            cache'[i] = cache[At(k)] \/ (i \in DOMAIN rest /\ cache'[i] = rest[i])
      BY <1>3, <1>4, <1>5
    <2>. QED BY <1>3, <1>4, <2>1
  <1>8. StaleOnlyFromRacers'
    BY <1>1, <1>7, FewerIsSound DEF StaleInv
  <1>. QED BY <1>1, <1>2, <1>6, <1>8 DEF StaleInv, CacheIsSeq, Numbers, NotAhead, CarriersAreLate

(* Commits only move the database ahead; clearing overtakes whoever is about to insert. *)
LEMMA WriteStep ==
  ASSUME StaleInv, Ingest \/ Commit \/ Invalidate
  PROVE  StaleInv'
  <1>1. CASE Ingest \/ Commit
    BY <1>1 DEF StaleInv, CacheIsSeq, Numbers, Stations, Wanted, NotAhead, CarriersAreLate,
                StaleOnlyFromRacers, Ingest, Commit, request
  <1>2. CASE Invalidate
    <2>1. /\ cache' = <<>> /\ cleared' = version /\ UNCHANGED <<version, request>>
          /\ late' = [t \in Threads |-> late[t] \/ pc[t] = "insert"]
      BY <1>2 DEF Invalidate
    <2>2. CacheIsSeq' /\ StaleOnlyFromRacers' /\ NotAhead' /\ Numbers' /\ Wanted'
      BY <2>1 DEF StaleInv, CacheIsSeq, Numbers, Wanted, NotAhead, StaleOnlyFromRacers, request
    <2>3. Stations' /\ CarriersAreLate'
      BY <2>1 DEF StaleInv, Stations, CarriersAreLate, request
    <2>. QED BY <2>2, <2>3 DEF StaleInv
  <1>. QED BY <1>1, <1>2

(* An expired entry is the entry it was. *)
LEMMA ExpireStep ==
  ASSUME StaleInv, NEW k \in Keys, Expire(k)
  PROVE  StaleInv'
  <1>1. UNCHANGED <<version, cleared, read, late, want, pc>>
    BY DEF Expire, request
  <1>2. /\ At(k) \in DOMAIN cache
        /\ cache' = [cache EXCEPT ![At(k)].old = TRUE]
    BY DEF Expire, Fresh, Has, At
  <1>a. cache[At(k)] \in Entry
    BY <1>2, ElementOfSeq DEF StaleInv, CacheIsSeq
  <1>3. CacheIsSeq'
    <2>1. [cache[At(k)] EXCEPT !.old = TRUE] \in Entry
      BY <1>a DEF Entry
    <2>2. cache' = [cache EXCEPT ![At(k)] = [cache[At(k)] EXCEPT !.old = TRUE]]
      BY <1>2
    <2>. QED BY <1>2, <2>1, <2>2 DEF StaleInv, CacheIsSeq
  <1>4. /\ DOMAIN cache' = DOMAIN cache
        /\ \A i \in DOMAIN cache : cache'[i].ver = cache[i].ver /\ cache'[i].late = cache[i].late
    BY <1>2, <1>a DEF StaleInv, CacheIsSeq, Entry
  <1>5. StaleOnlyFromRacers'
    BY <1>1, <1>4 DEF StaleInv, StaleOnlyFromRacers
  <1>. QED BY <1>1, <1>3, <1>5 DEF StaleInv, Numbers, Stations, Wanted, NotAhead, CarriersAreLate

(* A cache that starts empty holds nothing stale. *)
LEMMA StaleInit == Init => StaleInv
  BY DEF Init, StaleInv, CacheIsSeq, Numbers, Stations, Stages, Wanted, NotAhead,
         CarriersAreLate, StaleOnlyFromRacers

(* Every step keeps the invariant. *)
LEMMA StaleStep == StaleInv /\ [Next]_vars => StaleInv'
  <1>. SUFFICES ASSUME StaleInv, [Next]_vars PROVE StaleInv'
    OBVIOUS
  <1>1. CASE UNCHANGED vars
    BY <1>1 DEF vars, request, StaleInv, CacheIsSeq, Numbers, Stations, Wanted, NotAhead,
                CarriersAreLate, StaleOnlyFromRacers
  <1>2. ASSUME NEW t \in Threads,
               (\E k \in Keys : Ask(t, k)) \/ Progress(t) \/ Lock(t)
        PROVE  StaleInv'
    <2>1. CASE Hit(t) \/ QueryFails(t) \/ MoveRaises(t) \/ ScanRaises(t) \/ EvictRaises(t)
               \/ Answer(t)
      BY <2>1, LeaveStep DEF Hit, QueryFails, MoveRaises, ScanRaises, EvictRaises, Answer
    <2>. QED BY <1>2, <2>1, WalkStep, TakeOutStep, QueryStep, InsertStep, MoveStep DEF Progress
  <1>3. CASE Ingest \/ Commit \/ Invalidate
    BY <1>3, WriteStep
  <1>4. CASE \E k \in Keys : Expire(k)
    BY <1>4, ExpireStep
  <1>. QED BY <1>1, <1>2, <1>3, <1>4 DEF Next

(***************************************************************************)
(* An entry older than the last finished admin write was stored by a       *)
(* request the write overtook, and by no other.                            *)
(***************************************************************************)
THEOREM OnlyRacersAreStale == Spec => []StaleOnlyFromRacers
  <1>1. StaleInv => StaleOnlyFromRacers
    BY DEF StaleInv
  <1>. QED BY <1>1, StaleInit, StaleStep, PTL DEF Spec

-----------------------------------------------------------------------------
(* The lock of a shared key: who computes it holds it. *)
Holding ==
  /\ holder \in [Shared -> Threads \cup {None}]
  /\ \A t \in Threads :
       want[t] \in Shared /\ pc[t] \in {"query", "insert"} => holder[want[t]] = t

LockInv == StaleInv /\ Holding

(* A request that leaves gives back its own locks and nobody else's. *)
LEMMA LeaveGivesBack ==
  ASSUME LockInv, NEW t \in Threads, Leave(t)
  PROVE  Holding'
  <1>1. \A u \in Threads : u # t => pc'[u] = pc[u] /\ want'[u] = want[u]
    BY DEF Leave, Goto, LockInv, StaleInv, Stations, Wanted
  <1>2. pc'[t] = "idle"
    BY DEF Leave, Goto, LockInv, StaleInv, Stations
  <1>3. /\ holder' \in [Shared -> Threads \cup {None}]
        /\ \A k \in Shared : holder[k] # t => holder'[k] = holder[k]
    BY DEF Leave, LockInv, Holding
  <1>. QED BY <1>1, <1>2, <1>3 DEF LockInv, Holding

LEMMA LockStep == LockInv /\ [Next]_vars => LockInv'
  <1>. SUFFICES ASSUME LockInv, [Next]_vars PROVE Holding'
    BY StaleStep DEF LockInv
  <1>. USE DEF LockInv, StaleInv, Stations, Wanted
  <1>1. ASSUME UNCHANGED <<pc, want, holder>> PROVE Holding'
    BY <1>1 DEF Holding
  <1>2. ASSUME NEW t \in Threads, Leave(t) PROVE Holding'
    BY <1>2, LeaveGivesBack
  <1>3. ASSUME NEW t \in Threads, NEW k \in Keys, Ask(t, k) PROVE Holding'
    BY <1>3 DEF Holding, Ask, Goto
  <1>4. ASSUME NEW t \in Threads, Miss(t) \/ Drop(t) PROVE Holding'
    BY <1>4 DEF Holding, Miss, Drop, Missed, Goto
  <1>5. ASSUME NEW t \in Threads, Lock(t) PROVE Holding'
    BY <1>5, NoneAssumption DEF Holding, Lock, Goto
  <1>6. ASSUME NEW t \in Threads, Query(t) PROVE Holding'
    BY <1>6 DEF Holding, Query, Goto
  <1>7. ASSUME NEW t \in Threads,
               \/ Insert(t) \/ Move(t) \/ BeginScan(t) \/ EndScan(t) \/ Pop(t) \/ Popped(t)
               \/ CheckCap(t) \/ Evict(t)
        PROVE  Holding'
    <2>1. /\ UNCHANGED <<want, holder>>
          /\ \A u \in Threads : pc'[u] \in {"query", "insert"} => pc'[u] = pc[u]
      BY <1>7 DEF Insert, Move, BeginScan, EndScan, Pop, Popped, CheckCap, Evict, Goto
    <2>. QED BY <2>1 DEF Holding
  <1>8. CASE UNCHANGED vars \/ Ingest \/ Commit \/ Invalidate \/ \E k \in Keys : Expire(k)
    BY <1>1, <1>8 DEF vars, request, Ingest, Commit, Invalidate, Expire
  <1>9. ASSUME NEW t \in Threads, Progress(t) PROVE Holding'
    <2>1. CASE Hit(t) \/ QueryFails(t) \/ MoveRaises(t) \/ ScanRaises(t) \/ EvictRaises(t) \/ Answer(t)
      BY <1>2, <2>1 DEF Hit, QueryFails, MoveRaises, ScanRaises, EvictRaises, Answer
    <2>. QED BY <1>4, <1>6, <1>7, <1>9, <2>1 DEF Progress
  <1>. QED BY <1>3, <1>5, <1>8, <1>9 DEF Next

LEMMA LockInit == Init => LockInv
  BY StaleInit DEF Init, LockInv, Holding

(***************************************************************************)
(* However many requests ask for a shared key, one of them at a time       *)
(* queries for it and stores what it found: get_dashboard_data.            *)
(***************************************************************************)
THEOREM SharedComputedOnce == Spec => []OneComputation
  <1>1. LockInv => OneComputation
    BY DEF LockInv, Holding, OneComputation
  <1>. QED BY <1>1, LockInit, LockStep, PTL DEF Spec
-----------------------------------------------------------------------------
(***************************************************************************)
(* The cap.  Every entry over it is owed to a write under way: a write     *)
(* that has moved its key answers for one entry until it leaves, one that  *)
(* has inserted and not moved answers for its key while it is there.  Two  *)
(* writes of one key answer for it once until one of them has moved it.    *)
(***************************************************************************)
Past == {t \in Threads : pc[t] \in {"begin", "scan", "pop", "cap", "evict"}}
KeysIn == {cache[i].key : i \in DOMAIN cache}
Inserted == {t \in Threads : pc[t] = "move" /\ want[t] \in KeysIn}
Owed == {want[t] : t \in Inserted}

OnePlaceEach == \A i, j \in DOMAIN cache : cache[i].key = cache[j].key => i = j
Accounted == ~torn => Len(cache) <= MaxEntries + Cardinality(Past) + Cardinality(Owed)

CapInv == StaleInv /\ OnePlaceEach /\ Accounted

(* What a set of threads wants is no more than they are. *)
LEMMA WantsAreFewer ==
  ASSUME NEW T \in SUBSET Threads, NEW w
  PROVE  /\ IsFiniteSet(T) /\ IsFiniteSet({w[t] : t \in T})
         /\ Cardinality(T) \in Nat /\ Cardinality({w[t] : t \in T}) \in Nat
         /\ Cardinality({w[t] : t \in T}) <= Cardinality(T)
  <1>. DEFINE f == [t \in T |-> w[t]]
              W == {w[t] : t \in T}
  <1>1. IsFiniteSet(T)
    BY ThreadsAssumption, FS_Subset
  <1>2. f \in Surjection(T, W)
    BY DEF Surjection
  <1>. HIDE DEF f, W
  <1>3. IsFiniteSet(W) /\ Cardinality(W) <= Cardinality(T)
    BY <1>1, <1>2, FS_Surjection
  <1>4. Cardinality(T) \in Nat /\ Cardinality(W) \in Nat
    BY <1>1, <1>3, FS_CardinalityType
  <1>. QED BY <1>1, <1>3, <1>4 DEF W

(* Both counts are numbers, before a step and after it. *)
LEMMA CountsAreNumbers ==
  /\ IsFiniteSet(Past) /\ Cardinality(Past) \in Nat
  /\ IsFiniteSet(Owed) /\ Cardinality(Owed) \in Nat
  /\ IsFiniteSet(Past') /\ Cardinality(Past') \in Nat
  /\ IsFiniteSet(Owed') /\ Cardinality(Owed') \in Nat
  <1>1. Past \in SUBSET Threads /\ Inserted \in SUBSET Threads
    BY DEF Past, Inserted
  <1>2. Past' \in SUBSET Threads /\ Inserted' \in SUBSET Threads
    BY DEF Past, Inserted
  <1>3. IsFiniteSet(Past) /\ Cardinality(Past) \in Nat
    BY <1>1, WantsAreFewer
  <1>4. IsFiniteSet(Past') /\ Cardinality(Past') \in Nat
    BY <1>2, WantsAreFewer
  <1>5. IsFiniteSet(Owed) /\ Cardinality(Owed) \in Nat
    BY <1>1, WantsAreFewer DEF Owed
  <1>6. IsFiniteSet(Owed') /\ Cardinality(Owed') \in Nat
    BY <1>2, WantsAreFewer DEF Owed
  <1>. QED BY <1>3, <1>4, <1>5, <1>6

(* A step that adds no entry and settles no debt keeps the account. *)
LEMMA NothingSettled ==
  ASSUME CapInv, StaleInv', torn' = torn, Len(cache') <= Len(cache),
         Past \subseteq Past', Owed \subseteq Owed'
  PROVE  Accounted'
  <1>1. Cardinality(Past) <= Cardinality(Past') /\ Cardinality(Owed) <= Cardinality(Owed')
    BY CountsAreNumbers, FS_Subset
  <1>2. Len(cache) \in Nat /\ Len(cache') \in Nat
    BY DEF CapInv, StaleInv, CacheIsSeq
  <1>. QED BY <1>1, <1>2, CountsAreNumbers, CapAssumption DEF CapInv, Accounted

(* A step that takes an entry out settles one debt at most. *)
LEMMA OneSettled ==
  ASSUME CapInv, StaleInv', torn' = torn, Len(cache') = Len(cache) - 1,
         Past \subseteq Past', NEW k, Owed \ {k} \subseteq Owed'
  PROVE  Accounted'
  <1>1. Cardinality(Past) <= Cardinality(Past')
    BY CountsAreNumbers, FS_Subset
  <1>2. Cardinality(Owed) - 1 <= Cardinality(Owed \ {k}) /\ IsFiniteSet(Owed \ {k})
        /\ Cardinality(Owed \ {k}) \in Int
    <2>. DEFINE rest == Owed \ {k}
    <2>1. /\ IsFiniteSet(rest)
          /\ Cardinality(rest) = IF k \in Owed THEN Cardinality(Owed) - 1 ELSE Cardinality(Owed)
      BY CountsAreNumbers, FS_RemoveElement
    <2>. HIDE DEF rest
    <2>2. Cardinality(Owed) - 1 <= Cardinality(rest) /\ Cardinality(rest) \in Int
      BY <2>1, CountsAreNumbers
    <2>. QED BY <2>1, <2>2 DEF rest
  <1>3. Cardinality(Owed \ {k}) <= Cardinality(Owed')
    BY <1>2, CountsAreNumbers, FS_Subset
  <1>4. Len(cache) \in Nat /\ Len(cache') \in Nat
    BY DEF CapInv, StaleInv, CacheIsSeq
  <1>. QED BY <1>1, <1>2, <1>3, <1>4, CountsAreNumbers, CapAssumption DEF CapInv, Accounted

(* A cache within its cap owes nothing. *)
LEMMA WithinTheCap ==
  ASSUME StaleInv', Len(cache') <= MaxEntries
  PROVE  Accounted'
  <1>1. Len(cache') \in Nat
    BY DEF StaleInv, CacheIsSeq
  <1>. QED BY <1>1, CountsAreNumbers, CapAssumption DEF Accounted

(* Without a key the other keys are there, once each. *)
LEMMA KeysWithout ==
  ASSUME CacheIsSeq, OnePlaceEach, NEW k, Has(k)
  PROVE  /\ Len(Without(k)) = Len(cache) - 1
         /\ DOMAIN Without(k) = 1..(Len(cache) - 1)
         /\ \A i, j \in DOMAIN Without(k) : Without(k)[i].key = Without(k)[j].key => i = j
         /\ {Without(k)[i].key : i \in DOMAIN Without(k)} = KeysIn \ {k}
  <1>. DEFINE s == Without(k)
              n == Len(cache)
              a == At(k)
              Old(i) == IF i < a THEN i ELSE i + 1
  <1>1. /\ a \in 1..n /\ cache[a].key = k /\ n \in Nat
        /\ s \in Seq(Entry) /\ Len(s) = n - 1
        /\ \A i \in 1..(n - 1) : s[i] = IF i < a THEN cache[i] ELSE cache[i + 1]
    BY WithoutIs, SMTT(30) DEF CacheIsSeq
  <1>2. DOMAIN cache = 1..n
    BY DEF CacheIsSeq
  <1>. HIDE DEF s, n, a
  <1>3. DOMAIN s = 1..(n - 1)
    BY <1>1
  <1>4. ASSUME NEW i \in 1..(n - 1)
        PROVE  Old(i) \in 1..n /\ Old(i) # a /\ s[i] = cache[Old(i)]
    BY <1>1
  <1>5. ASSUME NEW i \in 1..(n - 1), NEW j \in 1..(n - 1), Old(i) = Old(j)
        PROVE  i = j
    BY <1>1, <1>5
  <1>6. ASSUME NEW i \in 1..n, i # a
        PROVE  \E j \in 1..(n - 1) : Old(j) = i
    <2>1. CASE i < a
      <3>1. i \in 1..(n - 1) /\ Old(i) = i
        BY <1>1, <2>1
      <3>. QED BY <3>1
    <2>2. CASE i > a
      <3>1. i - 1 \in 1..(n - 1) /\ Old(i - 1) = i
        BY <1>1, <2>2
      <3>. QED BY <3>1
    <2>. QED BY <1>1, <1>6, <2>1, <2>2
  <1>. HIDE DEF Old
  <1>7. \A i, j \in DOMAIN s : s[i].key = s[j].key => i = j
    BY <1>2, <1>3, <1>4, <1>5 DEF OnePlaceEach
  <1>8. {s[i].key : i \in DOMAIN s} = KeysIn \ {k}
    <2>1. ASSUME NEW i \in DOMAIN s PROVE s[i].key \in KeysIn \ {k}
      <3>1. Old(i) \in DOMAIN cache /\ Old(i) # a /\ s[i] = cache[Old(i)]
        BY <1>2, <1>3, <1>4
      <3>2. a \in DOMAIN cache /\ cache[a].key = k
        BY <1>1, <1>2
      <3>3. cache[Old(i)].key # k
        BY <3>1, <3>2 DEF OnePlaceEach
      <3>. QED BY <3>1, <3>3 DEF KeysIn
    <2>2. ASSUME NEW c \in KeysIn \ {k} PROVE \E i \in DOMAIN s : c = s[i].key
      <3>1. PICK i \in 1..n : c = cache[i].key
        BY <1>2 DEF KeysIn
      <3>2. i # a
        BY <1>1, <3>1
      <3>3. PICK j \in 1..(n - 1) : Old(j) = i
        BY <1>6, <3>2
      <3>. QED BY <1>3, <1>4, <3>1, <3>3
    <2>. QED BY <2>1, <2>2
  <1>. QED BY <1>1, <1>3, <1>7, <1>8 DEF s, n

(* A step that pops a key, or the oldest one, settles the debt of that key at most. *)
LEMMA KeyGoes ==
  ASSUME CapInv, StaleInv', torn' = torn, want' = want, Past \subseteq Past',
         \A t \in Threads : pc[t] = "move" => pc'[t] = "move",
         NEW k, Len(cache') = Len(cache) - 1, KeysIn' = KeysIn \ {k}
  PROVE  Accounted'
  <1>1. Owed \ {k} \subseteq Owed'
    BY DEF Owed, Inserted
  <1>. QED BY <1>1, OneSettled

LEMMA RemoveIsCounted ==
  ASSUME CapInv, StaleInv', torn' = torn, want' = want, Past \subseteq Past',
         \A t \in Threads : pc[t] = "move" => pc'[t] = "move",
         NEW k, Remove(k)
  PROVE  OnePlaceEach' /\ Accounted'
  <1>1. CASE ~Has(k)
    <2>1. cache' = cache
      BY <1>1 DEF Remove, Without
    <2>2. Owed \subseteq Owed' /\ OnePlaceEach'
      BY <2>1 DEF CapInv, OnePlaceEach, Owed, Inserted, KeysIn
    <2>3. Len(cache') <= Len(cache)
      BY <2>1 DEF CapInv, StaleInv, CacheIsSeq
    <2>. QED BY <2>2, <2>3, NothingSettled
  <1>2. CASE Has(k)
    <2>. DEFINE s == Without(k)
    <2>1. cache' = s
      BY DEF Remove
    <2>2. /\ Len(s) = Len(cache) - 1
          /\ \A i, j \in DOMAIN s : s[i].key = s[j].key => i = j
          /\ {s[i].key : i \in DOMAIN s} = KeysIn \ {k}
      BY <1>2, KeysWithout DEF CapInv, StaleInv
    <2>. HIDE DEF s
    <2>3. KeysIn' = KeysIn \ {k} /\ OnePlaceEach' /\ Len(cache') = Len(cache) - 1
      BY <2>1, <2>2 DEF KeysIn, OnePlaceEach
    <2>. QED BY <2>3, KeyGoes
  <1>. QED BY <1>1, <1>2

LEMMA EvictIsCounted ==
  ASSUME CapInv, StaleInv', NEW t \in Threads, Evict(t)
  PROVE  OnePlaceEach' /\ Accounted'
  <1>1. cache \in Seq(Entry) /\ cache # <<>> /\ cache' = Tail(cache)
    BY DEF CapInv, StaleInv, CacheIsSeq, Evict
  <1>2. /\ cache' \in Seq(Entry) /\ Len(cache') = Len(cache) - 1
        /\ \A i \in 1..Len(cache') : cache'[i] = cache[i + 1]
    BY <1>1, HeadTailProperties
  <1>. DEFINE n == Len(cache)
  <1>3. n \in Nat /\ n >= 1 /\ DOMAIN cache = 1..n /\ DOMAIN cache' = 1..(n - 1)
    BY <1>1, <1>2
  <1>4. \A i \in 1..(n - 1) : cache'[i] = cache[i + 1] /\ i + 1 \in 1..n /\ i + 1 # 1
    BY <1>2, <1>3
  <1>. HIDE DEF n
  <1>5. OnePlaceEach'
    <2>1. \A i, j \in 1..(n - 1) : cache[i + 1].key = cache[j + 1].key => i + 1 = j + 1
      BY <1>3, <1>4 DEF CapInv, OnePlaceEach
    <2>2. \A i, j \in 1..(n - 1) : i + 1 = j + 1 => i = j
      BY <1>3
    <2>. QED BY <1>3, <1>4, <2>1, <2>2, SMTT(30) DEF OnePlaceEach
  <1>6. KeysIn' = KeysIn \ {cache[1].key}
    <2>1. ASSUME NEW i \in DOMAIN cache' PROVE cache'[i].key \in KeysIn \ {cache[1].key}
      <3>1. i + 1 \in DOMAIN cache /\ 1 \in DOMAIN cache /\ i + 1 # 1 /\ cache'[i] = cache[i + 1]
        BY <1>3, <1>4
      <3>2. cache[i + 1].key # cache[1].key
        BY <3>1 DEF CapInv, OnePlaceEach
      <3>. QED BY <3>1, <3>2 DEF KeysIn
    <2>2. ASSUME NEW c \in KeysIn \ {cache[1].key} PROVE \E i \in DOMAIN cache' : c = cache'[i].key
      <3>1. PICK i \in 1..n : c = cache[i].key
        BY <1>3 DEF KeysIn
      <3>2. i # 1
        BY <3>1
      <3>3. i - 1 \in 1..(n - 1) /\ (i - 1) + 1 = i
        BY <1>3, <3>2
      <3>. QED BY <1>3, <1>4, <3>1, <3>3
    <2>. QED BY <2>1, <2>2 DEF KeysIn
  <1>7. /\ torn' = torn /\ want' = want /\ Past \subseteq Past'
        /\ \A u \in Threads : pc[u] = "move" => pc'[u] = "move"
    BY DEF Evict, Goto, Past, CapInv, StaleInv, Stations
  <1>. QED BY <1>2, <1>5, <1>6, <1>7, KeyGoes

(* A key stored anew is owed by whoever stored it. *)
LEMMA InsertIsCounted ==
  ASSUME CapInv, StaleInv', NEW t \in Threads, Insert(t)
  PROVE  OnePlaceEach' /\ Accounted'
  <1>. DEFINE k == want[t]
              e == [key |-> want[t], ver |-> read[t], old |-> FALSE, late |-> late[t]]
              n == Len(cache)
  <1>1. e.key = k /\ pc[t] = "insert" /\ torn' = torn /\ want' = want
    BY DEF Insert
  <1>2. cache \in Seq(Entry) /\ n \in Nat /\ DOMAIN cache = 1..n
    BY DEF CapInv, StaleInv, CacheIsSeq
  <1>3. /\ Past \subseteq Past' /\ pc'[t] = "move"
        /\ \A u \in Threads : pc[u] = "move" => pc'[u] = "move"
    BY DEF Insert, Goto, Past, CapInv, StaleInv, Stations
  <1>4. CASE Has(k)
    <2>1. cache' = [cache EXCEPT ![At(k)] = e]
      BY <1>4 DEF Insert
    <2>2. At(k) \in DOMAIN cache /\ cache[At(k)].key = k
      BY <1>4 DEF Has, At
    <2>. HIDE DEF e, k
    <2>3. DOMAIN cache' = DOMAIN cache /\ \A i \in DOMAIN cache : cache'[i].key = cache[i].key
      BY <1>1, <2>1, <2>2
    <2>4. Len(cache') <= Len(cache)
      BY <1>2, <2>1
    <2>5. KeysIn' = KeysIn /\ OnePlaceEach'
      BY <2>3 DEF KeysIn, OnePlaceEach, CapInv
    <2>6. Owed \subseteq Owed'
      BY <1>1, <1>3, <2>5 DEF Owed, Inserted
    <2>. QED BY <1>1, <1>3, <2>4, <2>5, <2>6, NothingSettled
  <1>5. CASE ~Has(k)
    <2>1. cache' = Append(cache, e)
      BY <1>5 DEF Insert
    <2>2. e \in Entry
      BY <1>1 DEF CapInv, StaleInv, Numbers, Stations, Wanted, Entry
    <2>. HIDE DEF e, k
    <2>3. /\ cache' \in Seq(Entry) /\ Len(cache') = n + 1 /\ cache'[n + 1] = e
          /\ \A i \in 1..n : cache'[i] = cache[i]
      BY <1>2, <2>1, <2>2, AppendProperties
    <2>. HIDE DEF n
    <2>4. DOMAIN cache' = 1..(n + 1) /\ 1..(n + 1) = 1..n \cup {n + 1}
      BY <1>2, <2>3
    <2>5. \A i \in 1..n : cache[i].key # k
      BY <1>2, <1>5 DEF Has
    <2>6. KeysIn' = KeysIn \cup {k} /\ k \notin KeysIn
      BY <1>1, <1>2, <2>3, <2>4, <2>5 DEF KeysIn
    <2>7. OnePlaceEach'
      BY <1>1, <1>2, <2>3, <2>4, <2>5 DEF CapInv, OnePlaceEach
    <2>8. k \notin Owed /\ Owed \cup {k} \subseteq Owed'
      BY <1>1, <1>3, <2>6 DEF Owed, Inserted, k
    <2>9. IsFiniteSet(Owed \cup {k}) /\ Cardinality(Owed \cup {k}) = Cardinality(Owed) + 1
      BY <2>8, CountsAreNumbers, FS_AddElement
    <2>10. Cardinality(Owed \cup {k}) <= Cardinality(Owed')
      BY <2>8, CountsAreNumbers, FS_Subset
    <2>11. Cardinality(Owed) + 1 <= Cardinality(Owed')
      BY <2>9, <2>10
    <2>12. Cardinality(Past) <= Cardinality(Past')
      BY <1>3, CountsAreNumbers, FS_Subset
    <2>13. Accounted'
      BY <1>1, <1>2, <2>3, <2>11, <2>12, CountsAreNumbers, CapAssumption DEF CapInv, Accounted, n
    <2>. QED BY <2>7, <2>13
  <1>. QED BY <1>4, <1>5

(* A write that has moved its key owes an entry in its own name. *)
LEMMA MoveIsCounted ==
  ASSUME CapInv, StaleInv', NEW t \in Threads, Move(t)
  PROVE  OnePlaceEach' /\ Accounted'
  <1>. DEFINE k == want[t]
              rest == Without(k)
              e == cache[At(k)]
              n == Len(cache)
  <1>1. Has(k) /\ pc[t] = "move" /\ torn' = torn /\ want' = want
    BY DEF Move
  <1>2. cache \in Seq(Entry) /\ n \in Nat /\ DOMAIN cache = 1..n
    BY DEF CapInv, StaleInv, CacheIsSeq
  <1>3. At(k) \in 1..n /\ e.key = k /\ rest \in Seq(Entry)
    BY <1>1, WithoutIs DEF CapInv, StaleInv
  <1>4. /\ Len(rest) = n - 1 /\ DOMAIN rest = 1..(n - 1)
        /\ \A i, j \in DOMAIN rest : rest[i].key = rest[j].key => i = j
        /\ {rest[i].key : i \in DOMAIN rest} = KeysIn \ {k}
    BY <1>1, KeysWithout DEF CapInv, StaleInv
  <1>5. e \in Entry
    BY <1>2, <1>3, ElementOfSeq
  <1>6. cache' = Append(rest, e)
    BY DEF Move
  <1>7. k \in KeysIn
    BY <1>1 DEF Has, KeysIn
  <1>8. t \notin Past /\ Past' = Past \cup {t}
    BY <1>1 DEF Move, Goto, Past, CapInv, StaleInv, Stations
  <1>9. \A u \in Threads : u # t => pc'[u] = pc[u]
    BY DEF Move, Goto, CapInv, StaleInv, Stations
  <1>. HIDE DEF rest, e, n, k
  <1>10. /\ cache' \in Seq(Entry) /\ Len(cache') = n /\ cache'[n] = e
         /\ \A i \in 1..(n - 1) : cache'[i] = rest[i]
    <2>1. /\ cache' \in Seq(Entry) /\ Len(cache') = Len(rest) + 1 /\ cache'[Len(rest) + 1] = e
          /\ \A i \in 1..Len(rest) : cache'[i] = rest[i]
      BY <1>3, <1>5, <1>6, AppendProperties
    <2>. QED BY <1>2, <1>4, <2>1
  <1>11. DOMAIN cache' = 1..n /\ 1..n = 1..(n - 1) \cup {n} /\ n \notin 1..(n - 1)
    BY <1>2, <1>3, <1>10
  <1>12. \A i \in 1..(n - 1) : rest[i].key \in KeysIn \ {k}
    BY <1>4
  <1>13. OnePlaceEach'
    BY <1>3, <1>4, <1>10, <1>11, <1>12 DEF OnePlaceEach
  <1>14. KeysIn' = KeysIn
    <2>1. KeysIn' = {rest[i].key : i \in 1..(n - 1)} \cup {k}
      BY <1>3, <1>10, <1>11 DEF KeysIn
    <2>. QED BY <1>4, <1>7, <2>1
  <1>15. Owed \ {k} \subseteq Owed'
    BY <1>1, <1>9, <1>14 DEF Owed, Inserted, k
  <1>16. Cardinality(Past') = Cardinality(Past) + 1
    BY <1>8, CountsAreNumbers, FS_AddElement
  <1>17. Cardinality(Owed) - 1 <= Cardinality(Owed')
    <2>. DEFINE less == Owed \ {k}
    <2>1. /\ IsFiniteSet(less)
          /\ Cardinality(less) = IF k \in Owed THEN Cardinality(Owed) - 1 ELSE Cardinality(Owed)
      BY CountsAreNumbers, FS_RemoveElement
    <2>2. Cardinality(less) <= Cardinality(Owed')
      BY <1>15, CountsAreNumbers, FS_Subset
    <2>. HIDE DEF less
    <2>. QED BY <2>1, <2>2, CountsAreNumbers
  <1>18. Accounted'
    BY <1>1, <1>2, <1>10, <1>16, <1>17, CountsAreNumbers, CapAssumption DEF CapInv, Accounted, n
  <1>. QED BY <1>13, <1>18

(* Whoever leaves the cache and its debts alone. *)
LEMMA UntouchedIsCounted ==
  ASSUME CapInv, StaleInv', torn' = torn, cache' = cache, Past \subseteq Past',
         \A t \in Threads : pc[t] = "move" /\ want[t] \in KeysIn => pc'[t] = "move" /\ want'[t] = want[t]
  PROVE  OnePlaceEach' /\ Accounted'
  <1>1. Owed \subseteq Owed' /\ OnePlaceEach'
    BY DEF CapInv, OnePlaceEach, Owed, Inserted, KeysIn
  <1>2. Len(cache') <= Len(cache)
    BY DEF CapInv, StaleInv, CacheIsSeq
  <1>. QED BY <1>1, <1>2, NothingSettled

(* An entry that grows old stays where it is. *)
LEMMA ExpireIsCounted ==
  ASSUME CapInv, StaleInv', NEW k \in Keys, Expire(k)
  PROVE  OnePlaceEach' /\ Accounted'
  <1>1. cache \in Seq(Entry) /\ cache' = [cache EXCEPT ![At(k)].old = TRUE]
        /\ torn' = torn /\ pc' = pc /\ want' = want
    BY DEF Expire, request, CapInv, StaleInv, CacheIsSeq
  <1>2. /\ DOMAIN cache' = DOMAIN cache /\ Len(cache') <= Len(cache)
        /\ \A i \in DOMAIN cache : cache'[i].key = cache[i].key
    <2>1. \A i \in DOMAIN cache : cache[i] \in Entry
      BY <1>1, ElementOfSeq
    <2>. QED BY <1>1, <2>1 DEF Entry
  <1>3. KeysIn' = KeysIn /\ OnePlaceEach'
    BY <1>2 DEF KeysIn, OnePlaceEach, CapInv
  <1>4. Past \subseteq Past' /\ Owed \subseteq Owed'
    BY <1>1, <1>3 DEF Past, Owed, Inserted
  <1>. QED BY <1>1, <1>2, <1>3, <1>4, NothingSettled

LEMMA CapInit == Init => CapInv
  <1>. SUFFICES ASSUME Init PROVE OnePlaceEach /\ Accounted
    BY StaleInit DEF CapInv
  <1>1. cache = <<>> /\ Len(cache) = 0
    BY DEF Init
  <1>. QED BY <1>1, CountsAreNumbers, CapAssumption DEF OnePlaceEach, Accounted

LEMMA CapStep == CapInv /\ [Next]_vars => CapInv'
  <1>. SUFFICES ASSUME CapInv, [Next]_vars PROVE OnePlaceEach' /\ Accounted'
    BY StaleStep DEF CapInv
  <1>1. StaleInv'
    BY StaleStep DEF CapInv
  <1>2. pc \in [Threads -> Stages] /\ want \in [Threads -> Keys \cup {None}]
    BY DEF CapInv, StaleInv, Stations, Wanted
  <1>3. ASSUME NEW t \in Threads,
               \/ \E k \in Keys : Ask(t, k)
               \/ Hit(t) \/ Miss(t) \/ Lock(t) \/ Query(t) \/ QueryFails(t) \/ MoveRaises(t)
               \/ BeginScan(t) \/ EndScan(t) \/ Popped(t) \/ CheckCap(t)
        PROVE  OnePlaceEach' /\ Accounted'
    <2>1. torn' = torn /\ cache' = cache /\ Past \subseteq Past'
      BY <1>2, <1>3 DEF Past, Ask, Hit, Miss, Missed, Lock, Query, QueryFails, MoveRaises, BeginScan,
                        EndScan, Popped, CheckCap, Leave, Goto
    <2>2. \A u \in Threads : pc[u] = "move" /\ want[u] \in KeysIn
                             => pc'[u] = "move" /\ want'[u] = want[u]
      BY <1>2, <1>3 DEF KeysIn, Has, Ask, Hit, Miss, Missed, Lock, Query, QueryFails, MoveRaises,
                        BeginScan, EndScan, Popped, CheckCap, Leave, Goto
    <2>. QED BY <1>1, <2>1, <2>2, UntouchedIsCounted
  <1>4. ASSUME NEW t \in Threads, Drop(t) \/ Pop(t)
        PROVE  OnePlaceEach' /\ Accounted'
    <2>1. /\ torn' = torn /\ want' = want /\ Past \subseteq Past'
          /\ \A u \in Threads : pc[u] = "move" => pc'[u] = "move"
      BY <1>2, <1>4 DEF Past, Drop, Missed, Pop, Goto
    <2>2. PICK k : Remove(k)
      BY <1>4 DEF Drop, Pop
    <2>. QED BY <1>1, <2>1, <2>2, RemoveIsCounted
  <1>5. ASSUME NEW t \in Threads, ScanRaises(t)
        PROVE  OnePlaceEach' /\ Accounted'
    BY <1>5 DEF ScanRaises, CapInv, OnePlaceEach, Accounted
  <1>6. ASSUME NEW t \in Threads, EvictRaises(t) \/ Answer(t)
        PROVE  OnePlaceEach' /\ Accounted'
    <2>1. OnePlaceEach'
      BY <1>6 DEF EvictRaises, Answer, CapInv, OnePlaceEach
    <2>2. Len(cache') \in Nat /\ Len(cache') <= MaxEntries
      BY <1>1, <1>6, CapAssumption DEF EvictRaises, Answer, OverCap, StaleInv, CacheIsSeq
    <2>. QED BY <1>1, <2>1, <2>2, WithinTheCap
  <1>7. ASSUME Invalidate PROVE OnePlaceEach' /\ Accounted'
    <2>1. cache' = <<>> /\ Len(cache') = 0
      BY <1>7 DEF Invalidate
    <2>2. OnePlaceEach'
      BY <2>1 DEF OnePlaceEach
    <2>. QED BY <1>1, <2>1, <2>2, WithinTheCap, CapAssumption
  <1>8. ASSUME Ingest \/ Commit \/ UNCHANGED vars PROVE OnePlaceEach' /\ Accounted'
    <2>1. UNCHANGED <<torn, cache, pc, want>>
      BY <1>8 DEF Ingest, Commit, vars, request
    <2>. QED BY <1>1, <2>1, UntouchedIsCounted DEF Past
  <1>. QED BY <1>1, <1>3, <1>4, <1>5, <1>6, <1>7, <1>8, InsertIsCounted, MoveIsCounted,
              EvictIsCounted, ExpireIsCounted DEF Next, Progress

(***************************************************************************)
(* However many threads store however many keys, the cache is over its cap *)
(* by no more entries than there are writes under way: cache_set.          *)
(***************************************************************************)
THEOREM CapIsHeld == Spec => []CapHeld
  <1>1. CapInv => CapHeld
    <2>. SUFFICES ASSUME CapInv, ~torn
                  PROVE  Len(cache) <= MaxEntries + Cardinality({t \in Threads : Writing(t)})
      BY DEF CapHeld
    <2>. DEFINE writers == {t \in Threads : Writing(t)}
    <2>1. IsFiniteSet(Inserted) /\ Cardinality(Owed) <= Cardinality(Inserted)
          /\ Cardinality(Inserted) \in Nat
      BY WantsAreFewer DEF Inserted, Owed
    <2>2. IsFiniteSet(writers) /\ Cardinality(writers) \in Nat
      BY WantsAreFewer
    <2>3. Past \cap Inserted = {} /\ Past \cup Inserted \subseteq writers
      BY DEF Past, Inserted, Writing
    <2>4. Cardinality({}) = 0
      BY FS_EmptySet
    <2>5. Cardinality(Past \cup Inserted) = Cardinality(Past) + Cardinality(Inserted)
      <3>1. Cardinality(Past \cup Inserted)
              = Cardinality(Past) + Cardinality(Inserted) - Cardinality(Past \cap Inserted)
        BY <2>1, CountsAreNumbers, FS_Union
      <3>2. Cardinality(Past \cap Inserted) = 0
        BY <2>3, <2>4
      <3>. QED BY <2>1, <3>1, <3>2, CountsAreNumbers
    <2>6. Cardinality(Past \cup Inserted) <= Cardinality(writers)
      BY <2>2, <2>3, FS_Subset
    <2>7. Len(cache) \in Nat
      BY DEF CapInv, StaleInv, CacheIsSeq
    <2>. HIDE DEF writers
    <2>8. Len(cache) <= MaxEntries + Cardinality(writers)
      BY <2>1, <2>2, <2>5, <2>6, <2>7, CountsAreNumbers, CapAssumption DEF CapInv, Accounted
    <2>. QED BY <2>8 DEF writers
  <1>. QED BY <1>1, CapInit, CapStep, PTL DEF Spec
-----------------------------------------------------------------------------
(***************************************************************************)
(* Types.  What a scan found is a sequence of keys, however long.          *)
(***************************************************************************)
LEMMA LeastNatural ==
  ASSUME NEW T, T \subseteq Nat, T # {}
  PROVE  \E x \in T : \A y \in T : x <= y
  <1>1. PICK x \in T : \A y \in T : <<y, x>> \notin OpToRel(<, Nat)
    BY WFMin, NatLessThanWellFounded
  <1>2. \A y \in T : ~ (y < x)
    BY <1>1 DEF OpToRel
  <1>. QED BY <1>2

(* f[i] is what the first i of the sequences ss make, one after the other. *)
Joins(f, ss, n) == f = [i \in 1..n |-> IF i = 1 THEN ss[i] ELSE f[i - 1] \o ss[i]]

LEMMA JoinRecurses == ASSUME NEW ss, NEW n \in Nat PROVE \E f : Joins(f, ss, n)
  <1>. DEFINE T == {k \in Nat : ~ \E f : Joins(f, ss, k)}
  <1>1. T = {}
    <2>. SUFFICES ASSUME T # {} PROVE FALSE
      OBVIOUS
    <2>1. PICK m \in T : \A y \in T : m <= y
      BY LeastNatural
    <2>2. m # 0
      <3>1. Joins([i \in 1..0 |-> ss], ss, 0)
        BY DEF Joins
      <3>. QED BY <3>1
    <2>3. m - 1 \in Nat /\ m - 1 \notin T
      <3>1. T \subseteq Nat
        OBVIOUS
      <3>. HIDE DEF T
      <3>. QED BY <2>1, <2>2, <3>1
    <2>4. PICK f : Joins(f, ss, m - 1)
      BY <2>3
    <2>. DEFINE more == [i \in 1..m |-> IF i = 1 THEN ss[i] ELSE f[i - 1] \o ss[i]]
    <2>5. \A i \in 1..(m - 1) : f[i] = IF i = 1 THEN ss[i] ELSE f[i - 1] \o ss[i]
      BY <2>4, Zenon DEF Joins
    <2>6. \A i \in 1..(m - 1) : more[i] = f[i]
      <3>1. \A i \in 1..(m - 1) : i \in 1..m
        BY <2>3
      <3>. QED BY <2>5, <3>1
    <2>7. \A i \in 1..m : i # 1 => i - 1 \in 1..(m - 1)
      BY <2>3
    <2>8. \A i \in 1..m : more[i] = IF i = 1 THEN ss[i] ELSE more[i - 1] \o ss[i]
      BY <2>6, <2>7
    <2>9. more = [i \in 1..m |-> more[i]]
      OBVIOUS
    <2>10. Joins(more, ss, m)
      <3>. HIDE DEF more
      <3>. QED BY <2>8, <2>9 DEF Joins
    <2>. QED BY <2>10
  <1>. QED BY <1>1

LEMMA FlattenedIsSeq ==
  ASSUME NEW X, NEW ss \in Seq(Seq(X))
  PROVE  Seqs!FlattenSeq(ss) \in Seq(X)
  <1>1. CASE ss = <<>>
    BY <1>1 DEF Seqs!FlattenSeq
  <1>2. CASE ss # <<>>
    <2>. DEFINE f == CHOOSE f : Joins(f, ss, Len(ss))
                T == {i \in 1..Len(ss) : f[i] \notin Seq(X)}
    <2>1. Len(ss) \in Nat /\ Len(ss) # 0 /\ \A i \in 1..Len(ss) : ss[i] \in Seq(X)
      BY <1>2
    <2>2. Joins(f, ss, Len(ss))
      BY <2>1, JoinRecurses
    <2>3. Seqs!FlattenSeq(ss) = f[Len(ss)]
      BY <2>1 DEF Seqs!FlattenSeq, Joins
    <2>. HIDE DEF f
    <2>4. \A i \in 1..Len(ss) : f[i] = IF i = 1 THEN ss[i] ELSE f[i - 1] \o ss[i]
      BY <2>2, Zenon DEF Joins
    <2>5. ASSUME T # {} PROVE FALSE
      <3>1. T \subseteq Nat
        OBVIOUS
      <3>2. PICK m \in T : \A y \in T : m <= y
        <4>. HIDE DEF T
        <4>. QED BY <2>5, <3>1, LeastNatural
      <3>3. m \in 1..Len(ss) /\ f[m] \notin Seq(X)
        BY <3>2
      <3>4. m # 1
        BY <2>1, <2>4, <3>3
      <3>5. m - 1 \in 1..Len(ss) /\ ~(m <= m - 1)
        BY <2>1, <3>3, <3>4
      <3>6. f[m - 1] \in Seq(X)
        BY <3>2, <3>5
      <3>7. f[m] = f[m - 1] \o ss[m] /\ ss[m] \in Seq(X)
        BY <2>1, <2>4, <3>3, <3>4
      <3>. QED BY <3>3, <3>6, <3>7
    <2>. QED BY <2>1, <2>3, <2>5
  <1>. QED BY <1>1, <1>2

LEMMA ExpiredAreKeys ==
  ASSUME CacheIsSeq, NEW t
  PROVE  Expired(t) \in Seq(Keys)
  <1>. DEFINE found == [i \in DOMAIN cache |-> IF cache[i].old THEN <<cache[i].key>> ELSE <<>>]
  <1>1. \A i \in DOMAIN cache : cache[i].key \in Keys
    <2>1. \A i \in 1..Len(cache) : cache[i] \in Entry
      BY ElementOfSeq DEF CacheIsSeq
    <2>2. DOMAIN cache = 1..Len(cache)
      BY DEF CacheIsSeq
    <2>3. \A e \in Entry : e.key \in Keys
      BY DEF Entry
    <2>. QED BY <2>1, <2>2, <2>3
  <1>2. \A i \in DOMAIN cache : found[i] \in Seq(Keys)
    BY <1>1
  <1>3. found \in Seq(Seq(Keys))
    <2>1. Len(cache) \in Nat /\ DOMAIN cache = 1..Len(cache)
      BY DEF CacheIsSeq
    <2>2. found \in [1..Len(cache) -> Seq(Keys)]
      BY <1>2, <2>1
    <2>. HIDE DEF found
    <2>. QED BY <2>1, <2>2
  <1>4. Expired(t) = Seqs!FlattenSeq(found)
    BY DEF Expired
  <1>. HIDE DEF found
  <1>. QED BY <1>3, <1>4, FlattenedIsSeq

Scans ==
  /\ doomed \in [Threads -> Seq(Keys)]
  /\ spoiled \in [Threads -> BOOLEAN] /\ torn \in BOOLEAN
  /\ writer \in {"idle", "committed"}

TypeInv == LockInv /\ CapInv /\ Scans

LEMMA ScansStep == StaleInv /\ Scans /\ [Next]_vars => Scans'
  <1>. SUFFICES ASSUME StaleInv, Scans, [Next]_vars PROVE Scans'
    OBVIOUS
  <1>1. ASSUME Spoil PROVE spoiled' \in [Threads -> BOOLEAN]
    BY <1>1 DEF Spoil
  <1>2. ASSUME NEW k, Remove(k) PROVE spoiled' \in [Threads -> BOOLEAN]
    BY <1>1, <1>2 DEF Remove, Scans
  <1>3. ASSUME NEW t \in Threads, Leave(t) PROVE doomed' \in [Threads -> Seq(Keys)]
    BY <1>3 DEF Leave, Scans
  <1>4. ASSUME NEW t \in Threads,
               Hit(t) \/ QueryFails(t) \/ MoveRaises(t) \/ ScanRaises(t) \/ EvictRaises(t) \/ Answer(t)
        PROVE  Scans'
    BY <1>3, <1>4 DEF Scans, Hit, QueryFails, MoveRaises, ScanRaises, EvictRaises, Answer
  <1>5. ASSUME NEW t \in Threads,
               \/ \E k \in Keys : Ask(t, k)
               \/ Miss(t) \/ Lock(t) \/ Query(t) \/ Popped(t) \/ CheckCap(t)
        PROVE  Scans'
    BY <1>5 DEF Scans, Ask, Miss, Lock, Query, Popped, CheckCap
  <1>6. ASSUME NEW t \in Threads, Drop(t) PROVE Scans'
    BY <1>2, <1>6 DEF Scans, Drop
  <1>7. ASSUME NEW t \in Threads, Insert(t) \/ Move(t) \/ Evict(t) PROVE Scans'
    BY <1>1, <1>7 DEF Scans, Insert, Move, Evict
  <1>8. ASSUME NEW t \in Threads, BeginScan(t) PROVE Scans'
    BY <1>8 DEF Scans, BeginScan
  <1>9. ASSUME NEW t \in Threads, EndScan(t) PROVE Scans'
    BY <1>9, ExpiredAreKeys DEF Scans, EndScan, StaleInv
  <1>10. ASSUME NEW t \in Threads, Pop(t) PROVE Scans'
    <2>1. doomed[t] \in Seq(Keys) /\ doomed[t] # <<>>
      BY <1>10 DEF Pop, Scans
    <2>2. doomed' \in [Threads -> Seq(Keys)]
      BY <1>10, <2>1 DEF Pop, Scans
    <2>. QED BY <1>2, <1>10, <2>2 DEF Pop, Scans
  <1>11. CASE Ingest \/ Commit \/ \E k \in Keys : Expire(k)
    BY <1>11 DEF Scans, Ingest, Commit, Expire, request
  <1>12. CASE Invalidate
    BY <1>1, <1>12 DEF Scans, Invalidate, request
  <1>13. CASE UNCHANGED vars
    BY <1>13 DEF Scans, vars, request
  <1>. QED BY <1>4, <1>5, <1>6, <1>7, <1>8, <1>9, <1>10, <1>11, <1>12, <1>13 DEF Next, Progress

(***************************************************************************)
(* Every reachable state of the response cache is well typed, a key has    *)
(* one place in it, and a request under way has a key: cache_get,          *)
(* cache_set and the lock of the dashboard.                                *)
(***************************************************************************)
THEOREM TypeCorrect == Spec => []TypeOK
  <1>1. Init => TypeInv
    <2>1. Init => Scans
      <3>1. <<>> \in Seq(Keys)
        OBVIOUS
      <3>2. Init => doomed \in [Threads -> Seq(Keys)]
        BY <3>1, Zenon DEF Init
      <3>. QED BY <3>2 DEF Init, Scans
    <2>. QED BY <2>1, LockInit, CapInit DEF TypeInv
  <1>2. TypeInv /\ [Next]_vars => TypeInv'
    BY LockStep, CapStep, ScansStep DEF TypeInv, LockInv
  <1>3. TypeInv => TypeOK
    BY DEF TypeInv, LockInv, CapInv, StaleInv, CacheIsSeq, Numbers, Stations, Wanted, Holding,
           OnePlaceEach, Scans, TypeOK
  <1>. QED BY <1>1, <1>2, <1>3, PTL DEF Spec
=============================================================================
